---- MODULE Spec2Model ----
(***************************************************************************)
(* Model of ogr/ogrsf_frmts/osm/ogrosmlayer.cpp: the per-layer feature     *)
(* array of OGROSMLayer and the reading logic of GetNextFeature() in       *)
(* normal and interleaved mode.                                            *)
(*                                                                         *)
(* A feature is a positive integer; 0 stands for the null unique_ptr that  *)
(* std::move leaves in a slot of m_apoFeatures once it has been delivered. *)
(* The thresholds keep their role but are scaled down so that TLC can fill *)
(* an array past them.                                                     *)
(***************************************************************************)
EXTENDS Integers, Sequences, FiniteSets, TLC

\* constexpr size_t SWITCH_THRESHOLD = 10000 (scaled down)
SWITCH_THRESHOLD == 1
\* constexpr size_t MAX_THRESHOLD = 100000 (scaled down)
MAX_THRESHOLD == 2

\* number of entities in the input stream
MaxEntities == 4

\* the layers of the data source (m_poDS->m_apoLayers), by index
Layers == {0, 1}
\* nullptr as a layer pointer
NoLayer == -1
\* nullptr as a feature pointer
NullFeature == 0
\* the attribute filter strings a caller may pass; "" stands for nullptr
NoQuery == ""
Queries == {"q"}

VARIABLES
    bInterleaved,     \* m_poDS->IsInterleavedReading()
    poCurrentLayer,   \* m_poDS->GetCurrentLayer()
    layers,           \* the members of each OGROSMLayer
    strLeft,          \* entities the parser has not read yet
    pc,               \* "idle", or "chunk" inside ParseNextChunk()
    caller,           \* layer whose MyGetNextFeature() called ParseNextChunk()
    chunkLeft,        \* entities of the current chunk still to be processed
    hAppended,        \* history: the features added to each layer, in order,
                      \* since the last time all of them had been returned
    hDelivered,       \* history: the features each layer returned since then
    hPass,            \* history: whether each layer has returned a feature
                      \* since the stream was last at its start
    ev,               \* the last call made and what it returned
    decl              \* what has been declared on a layer: its fields, its
                      \* computed attributes, its ignored keys, and the
                      \* options of its data source

vars == <<bInterleaved, poCurrentLayer, layers, strLeft, pc, caller,
          chunkLeft, hAppended, hDelivered, hPass, ev, decl>>

\* the variables of the reading of the stream, the last call apart
rvars == <<bInterleaved, poCurrentLayer, layers, strLeft, pc, caller,
           chunkLeft, hAppended, hDelivered, hPass>>

\* no declaration made: the reading of the stream does not look at them
NoDecl == <<>>

\* OGROSMLayer as constructed (member initialisers of the class)
NewLayer ==
    [m_apoFeatures |-> <<>>,
     m_nFeatureArrayIndex |-> 0,
     m_bResetReadingAllowed |-> FALSE,
     m_bHasWarnedTooManyFeatures |-> FALSE,
     m_bUserInterested |-> TRUE,
     m_pszAttrQueryString |-> NoQuery,
     m_poAttrQuery |-> FALSE]

\* the shape of ev; ret is the feature returned (NullFeature for nullptr)
\* or, for AddFeature, 1 for true and 0 for false
\* reset: m_poDS->MyResetReading() was called; pulled: ParseNextChunk() was;
\* cur: the current layer when GetNextFeature() was called
Event(op, l, ret, filt, msg, reset, pulled, cur) ==
    [op |-> op, lyr |-> l, ret |-> ret, filt |-> filt, msg |-> msg,
     reset |-> reset, pulled |-> pulled, cur |-> cur]

----------------------------------------------------------------------------
\* AddToArray(): result is the layer after the call, the return value and
\* the CPLError raised ("" when none)

\* Variants of AddToArray() that the properties below must tell from it:
\* one more slot allowed before an append is refused
AddToArray_OneMore(L, poFeature, bCheckFeatureThreshold, bAllocFails) ==
    IF bCheckFeatureThreshold /\ Len(L.m_apoFeatures) > MAX_THRESHOLD + 1
    THEN [lyr |-> [L EXCEPT !.m_bHasWarnedTooManyFeatures = TRUE],
          ret |-> FALSE,
          msg |-> IF ~L.m_bHasWarnedTooManyFeatures THEN "TooManyFeatures" ELSE ""]
    ELSE IF bAllocFails
    THEN [lyr |-> L, ret |-> FALSE, msg |-> "OutOfMemory"]
    ELSE [lyr |-> [L EXCEPT !.m_apoFeatures = Append(@, poFeature)],
          ret |-> TRUE, msg |-> ""]

\* the threshold test counting only the slots not yet handed out
AddToArray_Undelivered(L, poFeature, bCheckFeatureThreshold, bAllocFails) ==
    IF bCheckFeatureThreshold
       /\ Len(L.m_apoFeatures) - L.m_nFeatureArrayIndex > MAX_THRESHOLD
    THEN [lyr |-> [L EXCEPT !.m_bHasWarnedTooManyFeatures = TRUE],
          ret |-> FALSE,
          msg |-> IF ~L.m_bHasWarnedTooManyFeatures THEN "TooManyFeatures" ELSE ""]
    ELSE IF bAllocFails
    THEN [lyr |-> L, ret |-> FALSE, msg |-> "OutOfMemory"]
    ELSE [lyr |-> [L EXCEPT !.m_apoFeatures = Append(@, poFeature)],
          ret |-> TRUE, msg |-> ""]

AddToArray(L, poFeature, bCheckFeatureThreshold, bAllocFails) ==
    IF bCheckFeatureThreshold /\ Len(L.m_apoFeatures) > MAX_THRESHOLD
    THEN [lyr |-> [L EXCEPT !.m_bHasWarnedTooManyFeatures = TRUE],
          ret |-> FALSE,
          msg |-> IF ~L.m_bHasWarnedTooManyFeatures THEN "TooManyFeatures" ELSE ""]
    ELSE IF bAllocFails
    THEN [lyr |-> L, ret |-> FALSE, msg |-> "OutOfMemory"]
    ELSE [lyr |-> [L EXCEPT !.m_apoFeatures = Append(@, poFeature)],
          ret |-> TRUE, msg |-> ""]

\* Variant of AddFeature() without the test of m_bUserInterested
AddFeature_NoInterest(L, poFeature, bSpatialPass, bAttrFilterAlreadyEvaluated, bAttrPass, bCheckFeatureThreshold, bAllocFails) ==
    IF bSpatialPass /\
       (~L.m_poAttrQuery \/ bAttrFilterAlreadyEvaluated \/ bAttrPass)
    THEN LET r == AddToArray(L, poFeature, bCheckFeatureThreshold, bAllocFails)
         IN  IF ~r.ret
             THEN [lyr |-> r.lyr, ret |-> FALSE, filt |-> "unset", msg |-> r.msg]
             ELSE [lyr |-> r.lyr, ret |-> TRUE, filt |-> "false", msg |-> r.msg]
    ELSE [lyr |-> L, ret |-> TRUE, filt |-> "true", msg |-> ""]

\* AddFeature(): filt is the value written to *pbFilteredOut, "unset" when
\* the function returns without writing it
AddFeature(L, poFeature, bSpatialPass, bAttrFilterAlreadyEvaluated, bAttrPass, bCheckFeatureThreshold, bAllocFails) ==
    IF ~L.m_bUserInterested
    THEN [lyr |-> L, ret |-> TRUE, filt |-> "true", msg |-> ""]
    ELSE IF bSpatialPass /\
            (~L.m_poAttrQuery \/ bAttrFilterAlreadyEvaluated \/ bAttrPass)
    THEN LET r == AddToArray(L, poFeature, bCheckFeatureThreshold, bAllocFails)
         IN  IF ~r.ret
             THEN [lyr |-> r.lyr, ret |-> FALSE, filt |-> "unset", msg |-> r.msg]
             ELSE [lyr |-> r.lyr, ret |-> TRUE, filt |-> "false", msg |-> r.msg]
    ELSE [lyr |-> L, ret |-> TRUE, filt |-> "true", msg |-> ""]

\* Variants of the tail of MyGetNextFeature(): the index not advanced
TakeFeature_NoAdvance(L) ==
    LET i == L.m_nFeatureArrayIndex + 1
        poFeature == L.m_apoFeatures[i]
        moved == [L.m_apoFeatures EXCEPT ![i] = NullFeature]
    IN  [lyr |-> IF i = Len(moved)
                 THEN [L EXCEPT !.m_nFeatureArrayIndex = 0,
                                !.m_apoFeatures = <<>>]
                 ELSE [L EXCEPT !.m_apoFeatures = moved],
         ret |-> poFeature]

\* the array not cleared once its last slot has been handed out
TakeFeature_NoClear(L) ==
    LET i == L.m_nFeatureArrayIndex + 1
        poFeature == L.m_apoFeatures[i]
        moved == [L.m_apoFeatures EXCEPT ![i] = NullFeature]
    IN  [lyr |-> IF i = Len(moved)
                 THEN [L EXCEPT !.m_nFeatureArrayIndex = 0,
                                !.m_apoFeatures = moved]
                 ELSE [L EXCEPT !.m_nFeatureArrayIndex = i,
                                !.m_apoFeatures = moved],
         ret |-> poFeature]

\* the tail of MyGetNextFeature(): hand out the slot under the index
TakeFeature(L) ==
    LET i == L.m_nFeatureArrayIndex + 1
        poFeature == L.m_apoFeatures[i]
        moved == [L.m_apoFeatures EXCEPT ![i] = NullFeature]
    IN  [lyr |-> IF i = Len(moved)
                 THEN [L EXCEPT !.m_nFeatureArrayIndex = 0,
                                !.m_apoFeatures = <<>>]
                 ELSE [L EXCEPT !.m_nFeatureArrayIndex = i,
                                !.m_apoFeatures = moved],
         ret |-> poFeature]

\* ForceResetReading()
ForceResetReading(L) ==
    [L EXCEPT !.m_apoFeatures = <<>>,
              !.m_nFeatureArrayIndex = 0,
              !.m_bResetReadingAllowed = FALSE]

----------------------------------------------------------------------------
\* the first layer of S in the order of m_poDS->m_apoLayers
FirstLayer(S) == CHOOSE i \in S : \A j \in S : i <= j

\* Variant of the first loop of MyGetNextFeature() that finds no layer
TooManyElsewhere_None(l) == {i \in Layers : FALSE}

\* layers other than l that hold more than SWITCH_THRESHOLD slots
\* (first loop of MyGetNextFeature)
TooManyElsewhere(l) ==
    {i \in Layers : i # l /\ Len(layers[i].m_apoFeatures) > SWITCH_THRESHOLD}

\* layers other than l whose array is not empty (second loop)
NonEmptyElsewhere(l) ==
    {i \in Layers : i # l /\ layers[i].m_apoFeatures # <<>>}

\* the data source and its layers before the first call
ReadingInit ==
    /\ bInterleaved \in BOOLEAN
    /\ poCurrentLayer = NoLayer
    /\ layers = [l \in Layers |-> NewLayer]
    /\ strLeft = MaxEntities
    /\ pc = "idle"
    /\ caller = NoLayer
    /\ chunkLeft = 0
    /\ hAppended = [l \in Layers |-> <<>>]
    /\ hDelivered = [l \in Layers |-> <<>>]
    /\ hPass = [l \in Layers |-> FALSE]

Init ==
    /\ ReadingInit
    /\ ev = Event("Init", NoLayer, 0, "unset", "", FALSE, FALSE, NoLayer)
    /\ decl = NoDecl

\* m_poDS->ParseNextChunk() is entered: the parser reads the next chunk of
\* the stream, one entity or more unless the stream is at its end; the
\* entities are then processed one by one
EnterParseNextChunk(l) ==
    /\ pc' = "chunk"
    /\ caller' = l
    /\ IF strLeft > 0
       THEN /\ chunkLeft' \in 1..strLeft
            /\ strLeft' = strLeft - chunkLeft'
       ELSE /\ strLeft' = strLeft
            /\ chunkLeft' = 0
    /\ ev' = Event("ParseNextChunk", l, 0, "unset", "", FALSE, TRUE, NoLayer)

\* MyGetNextFeature() returns nullptr; GetNextFeature() stores the new
\* current layer
ReturnNull(l, L, poNewCurLayer, pulled) ==
    /\ layers' = [layers EXCEPT ![l] = L]
    /\ poCurrentLayer' = poNewCurLayer
    /\ pc' = "idle"
    /\ ev' = Event("GetNextFeature", l, NullFeature, "unset", "", FALSE, pulled, poCurrentLayer)
    /\ UNCHANGED <<hAppended, hDelivered, hPass>>

\* MyGetNextFeature() returns the next feature of the array
ReturnFeature(l, L, poNewCurLayer, pulled) ==
    LET t == TakeFeature(L)
    IN  /\ layers' = [layers EXCEPT ![l] = t.lyr]
        /\ poCurrentLayer' = poNewCurLayer
        /\ pc' = "idle"
        /\ IF Len(hDelivered[l]) + 1 >= Len(hAppended[l])
           THEN /\ hDelivered' = [hDelivered EXCEPT ![l] = <<>>]
                /\ hAppended' = [hAppended EXCEPT ![l] = <<>>]
           ELSE /\ hDelivered' = [hDelivered EXCEPT ![l] = Append(@, t.ret)]
                /\ UNCHANGED hAppended
        /\ hPass' = [hPass EXCEPT ![l] = TRUE]
        /\ ev' = Event("GetNextFeature", l, t.ret, "unset", "", FALSE, pulled, poCurrentLayer)

\* Variant in which an empty layer always takes itself for the current one
NewCurLayer_Self(l) == l

\* *ppoNewCurLayer once an empty layer l has looked at the current layer in
\* interleaved mode
NewCurLayer(l) == IF poCurrentLayer = NoLayer THEN l ELSE poCurrentLayer

\* GetNextFeature() up to its return or to its first ParseNextChunk()
GetNextFeature(l) ==
    /\ pc = "idle"
    /\ LET L == [layers[l] EXCEPT !.m_bResetReadingAllowed = TRUE]
           poNewCurLayer == NewCurLayer(l)
       IN  IF L.m_apoFeatures # <<>>
           THEN /\ ReturnFeature(l, L, poCurrentLayer, FALSE)
                /\ UNCHANGED <<strLeft, caller, chunkLeft>>
           ELSE IF bInterleaved /\ poNewCurLayer # l
           THEN /\ ReturnNull(l, L, poNewCurLayer, FALSE)
                /\ UNCHANGED <<strLeft, caller, chunkLeft>>
           ELSE IF bInterleaved /\ TooManyElsewhere(l) # {}
           THEN /\ ReturnNull(l, L, FirstLayer(TooManyElsewhere(l)), FALSE)
                /\ UNCHANGED <<strLeft, caller, chunkLeft>>
           ELSE /\ layers' = [layers EXCEPT ![l] = L]
                /\ EnterParseNextChunk(l)
                /\ UNCHANGED <<poCurrentLayer, hAppended, hDelivered, hPass>>
    /\ UNCHANGED bInterleaved

\* inside ParseNextChunk(): one entity of the chunk is handed to AddFeature()
\* of the layer it belongs to
\* the feature the parser builds next for layer l: features are numbered by
\* their place among those added since the layer last had none to return
NextFeature(l) == Len(hAppended[l]) + 1

AddFeatureCall(l, bSpatialPass, bAttrDone, bAttrPass, bCheck, bAllocFails) ==
    /\ pc = "chunk"
    /\ chunkLeft > 0
    /\ LET r == AddFeature(layers[l], NextFeature(l), bSpatialPass, bAttrDone,
                           bAttrPass, bCheck, bAllocFails)
       IN  /\ ev' = Event("AddFeature", l, IF r.ret THEN 1 ELSE 0, r.filt,
                          r.msg, FALSE, FALSE, NoLayer)
           /\ layers' = [layers EXCEPT ![l] = r.lyr]
           /\ hAppended' = IF r.ret /\ r.filt = "false"
                           THEN [hAppended EXCEPT ![l] = Append(@, NextFeature(l))]
                           ELSE hAppended
    /\ chunkLeft' = chunkLeft - 1
    /\ UNCHANGED <<bInterleaved, poCurrentLayer, strLeft, pc, caller,
                   hDelivered, hPass>>

\* the values an input of AddFeature() may take: both where the call reads
\* it, one (which then decides nothing) where it does not
ReadIf(bRead) == IF bRead THEN BOOLEAN ELSE {TRUE}

ChunkAddFeature(l) ==
    LET L == layers[l]
    IN  \* the filters are evaluated on a layer the user is interested in;
        \* bAttrFilterAlreadyEvaluated is read on a layer with a query once
        \* the spatial filter has passed, m_poAttrQuery->Evaluate() is called
        \* when it is false
        \E bSpatialPass \in ReadIf(L.m_bUserInterested) :
        \E bAttrDone \in ReadIf(L.m_bUserInterested /\ bSpatialPass
                                   /\ L.m_poAttrQuery) :
        \E bAttrPass \in ReadIf(L.m_bUserInterested /\ bSpatialPass
                                   /\ L.m_poAttrQuery /\ ~bAttrDone) :
        \* AddToArray() is called on a feature that passes the filters
        \E bCheck, bAllocFails \in ReadIf(L.m_bUserInterested /\ bSpatialPass
                                   /\ (~L.m_poAttrQuery \/ bAttrDone \/ bAttrPass)) :
          AddFeatureCall(l, bSpatialPass, bAttrDone, bAttrPass, bCheck, bAllocFails)

\* inside ParseNextChunk(): one entity of the chunk yields no feature for
\* any layer
ChunkSkipEntity ==
    /\ pc = "chunk"
    /\ chunkLeft > 0
    /\ chunkLeft' = chunkLeft - 1
    /\ ev' = Event("SkipEntity", caller, 0, "unset", "", FALSE, FALSE, NoLayer)
    /\ UNCHANGED <<bInterleaved, poCurrentLayer, layers, strLeft, pc, caller,
                   hAppended, hDelivered, hPass>>

\* Variant that ends the reading as soon as the array of the layer is empty
\* after ParseNextChunk(), whatever the other layers hold
AfterChunkInterleaved_NoSwitch(l) ==
    IF layers[l].m_apoFeatures = <<>>
    THEN ReturnNull(l, layers[l], NoLayer, TRUE)
    ELSE ReturnFeature(l, layers[l], l, TRUE)

\* what MyGetNextFeature() does in interleaved mode once ParseNextChunk()
\* has returned
AfterChunkInterleaved(l) ==
    IF layers[l].m_apoFeatures = <<>>
    THEN IF NonEmptyElsewhere(l) # {}
         THEN ReturnNull(l, layers[l], FirstLayer(NonEmptyElsewhere(l)), TRUE)
         ELSE ReturnNull(l, layers[l], NoLayer, TRUE)
    ELSE ReturnFeature(l, layers[l], l, TRUE)

\* Variant of the loop of the normal mode that tests bRet before the array
AfterChunkNormal_RetFirst(l, bRet) ==
    IF ~bRet
    THEN /\ ReturnNull(l, layers[l], poCurrentLayer, TRUE)
         /\ UNCHANGED <<strLeft, caller, chunkLeft>>
    ELSE IF layers[l].m_apoFeatures # <<>>
    THEN /\ ReturnFeature(l, layers[l], poCurrentLayer, TRUE)
         /\ UNCHANGED <<strLeft, caller, chunkLeft>>
    ELSE /\ EnterParseNextChunk(l)
         /\ UNCHANGED <<layers, poCurrentLayer, hAppended, hDelivered, hPass>>

\* one turn of the while (true) loop of the normal mode, from the return of
\* ParseNextChunk() on; bRet is its return value
AfterChunkNormal(l, bRet) ==
    IF layers[l].m_apoFeatures # <<>>
    THEN /\ ReturnFeature(l, layers[l], poCurrentLayer, TRUE)
         /\ UNCHANGED <<strLeft, caller, chunkLeft>>
    ELSE IF ~bRet
    THEN /\ ReturnNull(l, layers[l], poCurrentLayer, TRUE)
         /\ UNCHANGED <<strLeft, caller, chunkLeft>>
    ELSE /\ EnterParseNextChunk(l)
         /\ UNCHANGED <<layers, poCurrentLayer, hAppended, hDelivered, hPass>>

\* ParseNextChunk() returns: FALSE once the stream is exhausted
ParseNextChunkReturns ==
    /\ pc = "chunk"
    /\ chunkLeft = 0
    /\ IF bInterleaved
       THEN /\ AfterChunkInterleaved(caller)
            /\ UNCHANGED <<strLeft, caller, chunkLeft>>
       ELSE AfterChunkNormal(caller, strLeft > 0)
    /\ UNCHANGED bInterleaved

\* m_poDS->MyResetReading(): the parser goes back to the start of the stream
\* and every layer is emptied
MyResetReading ==
    /\ strLeft' = MaxEntities
    /\ hAppended' = [l \in Layers |-> <<>>]
    /\ hDelivered' = [l \in Layers |-> <<>>]
    /\ hPass' = [l \in Layers |-> FALSE]

\* Variant of the test of ResetReading() without IsInterleavedReading()
ResetReadingCalls_AnyMode(L) == L.m_bResetReadingAllowed

\* ResetReading(): whether the call goes on to m_poDS->MyResetReading()
ResetReadingCalls(L) == ~(~L.m_bResetReadingAllowed \/ bInterleaved)

ResetReading(l) ==
    /\ pc = "idle"
    /\ IF ResetReadingCalls(layers[l])
       THEN /\ MyResetReading
            /\ layers' = [i \in Layers |-> ForceResetReading(layers[i])]
            /\ ev' = Event("ResetReading", l, 0, "unset", "", TRUE, FALSE, NoLayer)
       ELSE /\ UNCHANGED <<layers, strLeft, hAppended, hDelivered, hPass>>
            /\ ev' = Event("ResetReading", l, 0, "unset", "", FALSE, FALSE, NoLayer)
    /\ UNCHANGED <<bInterleaved, poCurrentLayer, pc, caller, chunkLeft>>

\* OGRLayer::SetAttributeFilter(), the base class implementation: it stores
\* the string and compiles the query, which fails (bCompiles false) on a
\* malformed one
OGRLayer_SetAttributeFilter(L, pszQuery, bCompiles) ==
    [lyr |-> [L EXCEPT !.m_pszAttrQueryString = pszQuery,
                       !.m_poAttrQuery = (pszQuery # NoQuery /\ bCompiles)],
     eErr |-> IF pszQuery = NoQuery \/ bCompiles THEN "NONE" ELSE "CORRUPT_DATA"]

\* SetAttributeFilter(): true when the call returns before it touches the
\* filter (the two early returns)
SameAttributeFilter(L, pszAttrQuery) ==
    \/ pszAttrQuery = NoQuery /\ L.m_pszAttrQueryString = NoQuery
    \/ /\ pszAttrQuery # NoQuery
       /\ L.m_pszAttrQueryString # NoQuery
       /\ pszAttrQuery = L.m_pszAttrQueryString

\* SetAttributeFilter(): whether the accepted new filter makes the layer
\* call m_poDS->MyResetReading()
SetAttributeFilterCalls(L) == L.m_nFeatureArrayIndex = 0 /\ ~bInterleaved

\* SetAttributeFilter(). Whether the base class ends by calling the virtual
\* ResetReading() of the layer is not fixed by this file: both are allowed
\* (bBaseResets).
SetAttributeFilter(l, pszAttrQuery) ==
    /\ pc = "idle"
    /\ IF SameAttributeFilter(layers[l], pszAttrQuery)
       THEN /\ ev' = Event("SetAttributeFilter", l, 0, "unset", "", FALSE, FALSE, NoLayer)
            /\ UNCHANGED <<layers, strLeft, hAppended, hDelivered, hPass>>
       ELSE \E bCompiles, bBaseResets \in BOOLEAN :
              LET b == OGRLayer_SetAttributeFilter(layers[l], pszAttrQuery, bCompiles)
                  bReset1 == b.eErr = "NONE" /\ bBaseResets /\ ResetReadingCalls(b.lyr)
                  L1 == IF bReset1 THEN ForceResetReading(b.lyr) ELSE b.lyr
                  bReset2 == b.eErr = "NONE" /\ SetAttributeFilterCalls(L1)
              IN  IF bReset1 \/ bReset2
                  THEN /\ MyResetReading
                       /\ layers' = [i \in Layers |->
                             ForceResetReading(IF i = l THEN b.lyr ELSE layers[i])]
                       /\ ev' = Event("SetAttributeFilter", l, 0, "unset", "", TRUE, FALSE, NoLayer)
                  ELSE /\ layers' = [layers EXCEPT ![l] = b.lyr]
                       /\ ev' = Event("SetAttributeFilter", l,
                                      IF b.eErr = "NONE" THEN 0 ELSE 1, "unset",
                                      IF b.eErr = "NONE" THEN "NotImmediately" ELSE "",
                                      FALSE, FALSE, NoLayer)
                       /\ UNCHANGED <<strLeft, hAppended, hDelivered, hPass>>
    /\ UNCHANGED <<bInterleaved, poCurrentLayer, pc, caller, chunkLeft>>

\* SetDeclareInterest()
SetDeclareInterest(l, bIn) ==
    /\ pc = "idle"
    /\ layers' = [layers EXCEPT ![l].m_bUserInterested = bIn]
    /\ ev' = Event("SetDeclareInterest", l, 0, "unset", "", FALSE, FALSE, NoLayer)
    /\ UNCHANGED <<bInterleaved, poCurrentLayer, strLeft, pc, caller,
                   chunkLeft, hAppended, hDelivered, hPass>>

Next ==
    \/ \E l \in Layers : GetNextFeature(l) /\ UNCHANGED decl
    \/ \E l \in Layers : ChunkAddFeature(l) /\ UNCHANGED decl
    \/ ChunkSkipEntity /\ UNCHANGED decl
    \/ ParseNextChunkReturns /\ UNCHANGED decl
    \/ \E l \in Layers : ResetReading(l) /\ UNCHANGED decl
    \/ \E l \in Layers, q \in Queries \cup {NoQuery} :
           SetAttributeFilter(l, q) /\ UNCHANGED decl
    \/ \E l \in Layers, bIn \in BOOLEAN :
           SetDeclareInterest(l, bIn) /\ UNCHANGED decl

Spec == Init /\ [][Next]_vars

----------------------------------------------------------------------------
\* Vocabulary of the properties

\* number of slots of the feature array of layer l
Size(l) == Len(layers[l].m_apoFeatures)

\* the same after the step
SizeAfter(l) == Len(layers'[l].m_apoFeatures)

\* features of layer l added and not yet returned
Undelivered(l) == Len(hAppended[l]) - Len(hDelivered[l])

\* the step is a call of GetNextFeature() on layer l, up to its return or to
\* its first ParseNextChunk()
CallsGetNextFeature(l) ==
    /\ pc = "idle"
    /\ ev'.lyr = l
    /\ ev'.op \in {"GetNextFeature", "ParseNextChunk"}

\* the step ends a call of GetNextFeature() on layer l
ReturnsFromGetNextFeature(l) == ev'.op = "GetNextFeature" /\ ev'.lyr = l

\* no feature array changes in the step
ArraysUnchanged ==
    \A i \in Layers :
        /\ layers'[i].m_apoFeatures = layers[i].m_apoFeatures
        /\ layers'[i].m_nFeatureArrayIndex = layers[i].m_nFeatureArrayIndex

----------------------------------------------------------------------------
\* C1 (as stated): the number of slots of a layer's feature array never
\* exceeds MAX_THRESHOLD.
C1_NeverExceedsMax == \A l \in Layers : Size(l) <= MAX_THRESHOLD

\* C1 (amended): an append with threshold checking never grows the array
\* beyond MAX_THRESHOLD + 1 slots, and one made while the array holds more
\* than MAX_THRESHOLD slots returns failure and leaves the array as it was.
C1_CheckedAppendBounded ==
    [][ev'.op = "AddFeature" =>
         \/ /\ SizeAfter(ev'.lyr) > Size(ev'.lyr) =>
                  SizeAfter(ev'.lyr) <= MAX_THRESHOLD + 1
            /\ Size(ev'.lyr) > MAX_THRESHOLD /\ ev'.filt # "true" =>
                  /\ ev'.ret = 0
                  /\ layers'[ev'.lyr].m_apoFeatures
                       = layers[ev'.lyr].m_apoFeatures
         \/ ~\E bS, bD, bP, bOOM \in BOOLEAN :
               AddFeatureCall(ev'.lyr, bS, bD, bP, TRUE, bOOM)]_vars

\* an append has just been refused on an array of MAX_THRESHOLD + 1 slots
C1_Witness ==
    /\ ev.op = "AddFeature"
    /\ ev.ret = 0
    /\ ev.msg = "TooManyFeatures"
    /\ Size(ev.lyr) = MAX_THRESHOLD + 1

\* C2: in interleaved mode, GetNextFeature() on the current layer, whose
\* array is empty, while another layer holds more than SWITCH_THRESHOLD
\* slots, returns nullptr, makes such a layer the current one and reads
\* nothing from the stream; no array changes.
C2_SwitchWithoutParsing ==
    [][\A b \in Layers :
         ( /\ CallsGetNextFeature(b)
           /\ bInterleaved
           /\ poCurrentLayer = b
           /\ Size(b) = 0
           /\ \E a \in Layers \ {b} : Size(a) > SWITCH_THRESHOLD )
         => /\ ev'.op = "GetNextFeature"
            /\ ev'.ret = NullFeature
            /\ poCurrentLayer' # b
            /\ Len(layers[poCurrentLayer'].m_apoFeatures) > SWITCH_THRESHOLD
            /\ pc' = "idle"
            /\ strLeft' = strLeft
            /\ ArraysUnchanged]_vars

\* the current layer has just been redirected to a layer over the threshold
C2_Witness ==
    /\ bInterleaved
    /\ ev.op = "GetNextFeature"
    /\ ev.ret = NullFeature
    /\ ~ev.pulled
    /\ ev.cur = ev.lyr
    /\ Size(ev.lyr) = 0
    /\ poCurrentLayer \notin {NoLayer, ev.lyr}
    /\ Size(poCurrentLayer) > SWITCH_THRESHOLD

\* C3: between resets, GetNextFeature() returns the features of a layer in
\* the order in which they were added, each one once: every feature returned
\* is the oldest one added and not yet returned, a call on a layer that has
\* such a feature returns one, and the features still to be returned are
\* those of the array from the index on.
C3_Fifo ==
    /\ [][\A l \in Layers :
            /\ ReturnsFromGetNextFeature(l) /\ ev'.ret # NullFeature =>
                  /\ Undelivered(l) > 0
                  /\ ev'.ret = hAppended[l][Len(hDelivered[l]) + 1]
            /\ CallsGetNextFeature(l) /\ Undelivered(l) > 0 =>
                  ev'.op = "GetNextFeature" /\ ev'.ret # NullFeature]_vars
    /\ [](\A l \in Layers :
            /\ Undelivered(l) >= 0
            /\ SubSeq(hAppended[l], Len(hDelivered[l]) + 1, Len(hAppended[l]))
                 = SubSeq(layers[l].m_apoFeatures,
                          layers[l].m_nFeatureArrayIndex + 1, Size(l)))

\* a layer has returned its second feature while a third one, added after
\* the first was returned, waits
C3_Witness ==
    /\ ev.op = "GetNextFeature"
    /\ ev.ret = 2
    /\ hDelivered[ev.lyr] = <<1, 2>>
    /\ hAppended[ev.lyr] = <<1, 2, 3>>

----------------------------------------------------------------------------
\* Replay of a sequence of array operations on one layer, from layer L on:
\* "add" is AddToArray() with threshold checking, "addu" without, "take" the
\* tail of MyGetNextFeature() (which is only run on an array that is not
\* empty).  The result is the sequence of what each operation returned and
\* the error it raised; k numbers the features added.
RECURSIVE RunOps(_, _, _)
RunOps(L, ops, k) ==
    IF ops = <<>> THEN <<>>
    ELSE IF Head(ops) = "take"
    THEN IF L.m_apoFeatures = <<>>
         THEN <<[ret |-> NullFeature, msg |-> ""]>> \o RunOps(L, Tail(ops), k)
         ELSE LET t == TakeFeature(L)
              IN  <<[ret |-> t.ret, msg |-> ""]>> \o RunOps(t.lyr, Tail(ops), k)
    ELSE LET r == AddToArray(L, k, Head(ops) = "add", FALSE)
         IN  <<[ret |-> IF r.ret THEN 1 ELSE 0, msg |-> r.msg]>>
                \o RunOps(r.lyr, Tail(ops), k + 1)

\* the sequences of operations replayed: long enough to fill an array past
\* MAX_THRESHOLD and to have one more feature refused
OpSeqs == [1..(MAX_THRESHOLD + 2) -> {"add", "addu", "take"}]

\* what a sequence of results returned, the errors left out
Returned(res) == [i \in DOMAIN res |-> res[i].ret]

\* GetNextFeature() on layer l has just returned the last feature of the array
Drained(l) ==
    /\ ev.op = "GetNextFeature"
    /\ ev.lyr = l
    /\ ev.ret # NullFeature
    /\ Undelivered(l) = 0

\* C4 (as stated): once GetNextFeature() has drained the array of a layer,
\* every sequence of appends and takes returns the same values and raises the
\* same errors as on a newly constructed layer.
C4_Original ==
    \A l \in Layers :
        Drained(l) =>
            \A ops \in OpSeqs : RunOps(layers[l], ops, 1) = RunOps(NewLayer, ops, 1)

\* C4 (amended): once GetNextFeature() has drained the array of a layer,
\* every sequence of appends and takes returns the same values and features
\* as on a newly constructed layer; the errors raised are the same as well
\* when the layer has not yet raised the too-many-features error, and a
\* layer that has raised it does not raise it again.
C4_Amended ==
    \A l \in Layers :
        Drained(l) =>
            \A ops \in OpSeqs :
                LET here == RunOps(layers[l], ops, 1)
                    fresh == RunOps(NewLayer, ops, 1)
                IN  /\ Returned(here) = Returned(fresh)
                    /\ ~layers[l].m_bHasWarnedTooManyFeatures => here = fresh
                    /\ layers[l].m_bHasWarnedTooManyFeatures =>
                          \A i \in DOMAIN here : here[i].msg # "TooManyFeatures"

\* a layer that has raised the too-many-features error has been drained
C4_Witness ==
    \E l \in Layers :
        /\ Drained(l)
        /\ layers[l].m_bHasWarnedTooManyFeatures
        /\ layers[l].m_apoFeatures = <<>>

----------------------------------------------------------------------------
\* the index of the next slot of layer l to hand out
Index(l) == layers[l].m_nFeatureArrayIndex

\* the step is a call of AddFeature() that was refused by the threshold test
RefusedByThreshold == ev'.op = "AddFeature" /\ ev'.ret = 0 /\ ev'.msg # "OutOfMemory"

\* C5 (as stated): once GetNextFeature() has brought the number of features
\* not yet returned below MAX_THRESHOLD, an append is no longer refused by
\* the threshold test, although the array has not been emptied.
C5_Original ==
    [][\A l \in Layers :
         ev'.lyr = l /\ Size(l) - Index(l) < MAX_THRESHOLD => ~RefusedByThreshold]_vars

\* C5 (amended): an array that holds more than MAX_THRESHOLD slots, those
\* already returned included, stops doing so only by being emptied (its last
\* feature returned, or a reset); until then every append with threshold
\* checking that passes the filters is refused, however few features are
\* still to be returned, and an append to an array of at most MAX_THRESHOLD
\* slots is refused only for lack of memory.
C5_Amended ==
    [][/\ \A l \in Layers :
            Size(l) > MAX_THRESHOLD => SizeAfter(l) = 0 \/ SizeAfter(l) >= Size(l)
       /\ ev'.op = "AddFeature" =>
            \/ /\ Size(ev'.lyr) > MAX_THRESHOLD /\ ev'.filt # "true" =>
                     RefusedByThreshold /\ SizeAfter(ev'.lyr) = Size(ev'.lyr)
               /\ Size(ev'.lyr) <= MAX_THRESHOLD /\ ev'.ret = 0 =>
                     ev'.msg = "OutOfMemory"
            \/ ~\E bS, bD, bP, bOOM \in BOOLEAN :
                  AddFeatureCall(ev'.lyr, bS, bD, bP, TRUE, bOOM)]_vars

\* an append has just been refused by the threshold test on a layer that has
\* fewer than MAX_THRESHOLD features still to return
C5_Witness ==
    /\ ev.op = "AddFeature"
    /\ ev.ret = 0
    /\ ev.msg # "OutOfMemory"
    /\ Index(ev.lyr) > 0
    /\ Size(ev.lyr) - Index(ev.lyr) < MAX_THRESHOLD

\* C6: in interleaved mode, GetNextFeature() on a layer whose array is empty
\* while another layer is the current one returns nullptr, leaves the current
\* layer as it is, reads nothing from the stream and changes no array.
C6_NotCurrentReturnsNull ==
    [][\A l \in Layers :
         ( /\ CallsGetNextFeature(l)
           /\ bInterleaved
           /\ Size(l) = 0
           /\ poCurrentLayer \notin {NoLayer, l} )
         => /\ ev'.op = "GetNextFeature"
            /\ ev'.ret = NullFeature
            /\ poCurrentLayer' = poCurrentLayer
            /\ pc' = "idle"
            /\ strLeft' = strLeft
            /\ ArraysUnchanged]_vars

\* an empty layer that is not the current one has just been asked for a
\* feature
C6_Witness ==
    /\ bInterleaved
    /\ ev.op = "GetNextFeature"
    /\ ev.ret = NullFeature
    /\ ~ev.pulled
    /\ ev.cur \notin {NoLayer, ev.lyr}
    /\ poCurrentLayer = ev.cur
    /\ Size(ev.lyr) = 0
    /\ Size(ev.cur) > 0

\* C7: in interleaved mode, GetNextFeature() returns nullptr and sets the
\* current layer to none only when the stream is exhausted: every array is
\* empty and the parser has no entity left to read.
C7_EndOnlyWhenExhausted ==
    ( /\ bInterleaved
      /\ ev.op = "GetNextFeature"
      /\ ev.ret = NullFeature
      /\ ev.pulled
      /\ poCurrentLayer = NoLayer )
    => /\ \A l \in Layers : Size(l) = 0
       /\ strLeft = 0

----------------------------------------------------------------------------
\* Once GetNextFeature() has called ParseNextChunk(), the call runs on to its
\* return: the parser processes the entities of the chunk, ParseNextChunk()
\* returns, MyGetNextFeature() goes on.  Nothing obliges a caller to call
\* anything, hence no fairness on the calls themselves.
InsideGetNextFeature ==
    /\ \/ \E l \in Layers : ChunkAddFeature(l)
       \/ ChunkSkipEntity
       \/ ParseNextChunkReturns
    /\ UNCHANGED decl

\* the data source opened in normal mode (interleaved reading not asked for)
InitNormal == Init /\ ~bInterleaved

FairSpec == InitNormal /\ [][Next]_vars /\ WF_vars(InsideGetNextFeature)

\* the step is the return of ParseNextChunk() to MyGetNextFeature()
ChunkReturned == pc = "chunk" /\ ev'.op \in {"GetNextFeature", "ParseNextChunk"}

\* C8: in normal mode, GetNextFeature() on a layer whose array is empty calls
\* ParseNextChunk(); each time it has returned, the call returns a feature if
\* the array is not empty (also when the stream is exhausted), returns
\* nullptr if the array is empty and the stream is exhausted, and calls
\* ParseNextChunk() again otherwise; it returns nullptr in no other case, and
\* the call ends.
C8_NormalModePulls ==
    /\ [][~bInterleaved =>
            /\ \A l \in Layers :
                  CallsGetNextFeature(l) /\ Size(l) = 0 =>
                     ev'.op = "ParseNextChunk" /\ pc' = "chunk" /\ caller' = l
            /\ ChunkReturned =>
                  /\ ev'.lyr = caller
                  /\ Size(caller) > 0 =>
                        /\ ev'.op = "GetNextFeature"
                        /\ ev'.ret = layers[caller].m_apoFeatures[Index(caller) + 1]
                        /\ ev'.ret # NullFeature
                        /\ pc' = "idle"
                  /\ Size(caller) = 0 /\ strLeft = 0 =>
                        ev'.op = "GetNextFeature" /\ ev'.ret = NullFeature /\ pc' = "idle"
                  /\ Size(caller) = 0 /\ strLeft > 0 =>
                        ev'.op = "ParseNextChunk" /\ pc' = "chunk" /\ strLeft' < strLeft
            /\ ev'.op = "GetNextFeature" /\ ev'.ret = NullFeature =>
                  pc = "chunk" /\ Size(ev'.lyr) = 0 /\ strLeft = 0]_vars
    /\ (~bInterleaved /\ pc = "chunk") ~> (pc = "idle")

\* in normal mode, a call that found the array empty has returned a feature
\* read by the call of ParseNextChunk() that exhausted the stream
C8_Witness ==
    /\ ~bInterleaved
    /\ ev.op = "GetNextFeature"
    /\ ev.pulled
    /\ ev.ret # NullFeature
    /\ strLeft = 0

----------------------------------------------------------------------------
\* AddFeature() on layer l drops the feature: the user is not interested in
\* the layer, or the feature fails the spatial filter (bS false) or, on a
\* layer with a query and with bAttrFilterAlreadyEvaluated false (bD), the
\* evaluation of the attribute filter (bP false)
DropsFeature(l, bS, bD, bP) ==
    \/ ~layers[l].m_bUserInterested
    \/ ~bS
    \/ layers[l].m_poAttrQuery /\ ~bD /\ ~bP

\* the step is a call of AddFeature() on layer l that returned true with
\* *pbFilteredOut true and left the layer as it was
ReportsFilteredOut(l) ==
    /\ ev'.ret = 1
    /\ ev'.filt = "true"
    /\ layers'[l] = layers[l]

\* C9: AddFeature() on a layer the user is not interested in, or of a feature
\* that fails the spatial filter or the attribute filter (when not already
\* evaluated), returns true, sets *pbFilteredOut to true and leaves the array
\* as it was; when it returns true with *pbFilteredOut false, the feature is
\* the new last slot of the array.
C9_FilteredOutLeavesArray ==
    [][ev'.op = "AddFeature" =>
         /\ ev'.ret = 1 /\ ev'.filt = "false" =>
               /\ layers'[ev'.lyr].m_apoFeatures
                    = Append(layers[ev'.lyr].m_apoFeatures, NextFeature(ev'.lyr))
               /\ layers'[ev'.lyr].m_nFeatureArrayIndex = Index(ev'.lyr)
         /\ \/ ReportsFilteredOut(ev'.lyr)
            \/ \A bS, bD, bP \in BOOLEAN :
                  DropsFeature(ev'.lyr, bS, bD, bP) =>
                     ~\E bC, bOOM \in BOOLEAN :
                        AddFeatureCall(ev'.lyr, bS, bD, bP, bC, bOOM)]_vars

\* a feature has just been offered to a layer that holds features and in
\* which the user is no longer interested
C9_Witness ==
    /\ ev.op = "AddFeature"
    /\ ev.ret = 1
    /\ ev.filt = "true"
    /\ ~layers[ev.lyr].m_bUserInterested
    /\ Size(ev.lyr) > 0

\* the step is a call of ResetReading() or SetAttributeFilter()
CallsResetOrFilter == ev'.op \in {"ResetReading", "SetAttributeFilter"}

\* the stream is at its start and every array is empty
AllReset(s, lyrs) ==
    /\ s = MaxEntities
    /\ \A i \in Layers :
          lyrs[i].m_apoFeatures = <<>> /\ lyrs[i].m_nFeatureArrayIndex = 0

\* C10 (as stated): ResetReading() and SetAttributeFilter() call
\* MyResetReading() only when the data source is not in interleaved mode and
\* the layer has returned no feature since the stream was last at its start;
\* in every other state they leave the stream and the arrays as they are.
C10_Original ==
    [][CallsResetOrFilter =>
         /\ ev'.reset => ~bInterleaved /\ ~hPass[ev'.lyr]
         /\ bInterleaved \/ hPass[ev'.lyr] =>
               strLeft' = strLeft /\ ArraysUnchanged]_vars

\* C10 (amended): ResetReading() calls MyResetReading() exactly when the data
\* source is not in interleaved mode and GetNextFeature() has been called on
\* the layer since the last reset, whether or not it returned features;
\* SetAttributeFilter() calls it only when the data source is not in
\* interleaved mode and either the index of the layer is 0 (no slot of the
\* array it holds has been handed out) or GetNextFeature() has been called
\* on the layer since the last reset.  A call that does not call
\* MyResetReading() leaves the stream and the arrays as they are; one that
\* does leaves the stream at its start and every array empty.
C10_Amended ==
    [][CallsResetOrFilter =>
         /\ ev'.reset =>
               /\ ~bInterleaved
               /\ ev'.op = "ResetReading" =>
                     layers[ev'.lyr].m_bResetReadingAllowed
               /\ ev'.op = "SetAttributeFilter" =>
                     \/ Index(ev'.lyr) = 0
                     \/ layers[ev'.lyr].m_bResetReadingAllowed
               /\ AllReset(strLeft', layers')
         /\ ( /\ ev'.op = "ResetReading"
              /\ ~bInterleaved
              /\ layers[ev'.lyr].m_bResetReadingAllowed ) => ev'.reset
         /\ ~ev'.reset => strLeft' = strLeft /\ ArraysUnchanged]_vars

\* ResetReading() has just called MyResetReading() on a data source whose
\* layers had raised the too-many-features error, hence had returned or
\* held features
C10_Witness ==
    /\ ev.op = "ResetReading"
    /\ ev.reset
    /\ ~bInterleaved
    /\ AllReset(strLeft, layers)
    /\ layers[ev.lyr].m_bHasWarnedTooManyFeatures


----------------------------------------------------------------------------
\* Declarations on a layer and the projection of the tags of an entity onto
\* the fields of a feature.
\*
\* A text is a sequence of characters.  A run of characters that the code
\* never looks at one by one (a word such as highway) is written as a single
\* element of the sequence; ':', '_', '"', '\', '[', ']', blanks, signs,
\* digits and control characters are elements of their own.

\* the null character that ends a C string
NUL == ""

\* GetFieldIndex() when the name is not in m_oMapFieldNameToIndex
NoIndex == -1

\* the characters of a C string held in memory: up to the first NUL
RECURSIVE CStr(_)
CStr(mem) ==
    IF mem = <<>> \/ Head(mem) = NUL THEN <<>>
    ELSE <<Head(mem)>> \o CStr(Tail(mem))

\* strchr(psz, ch): position of the first ch (from 1), 0 when there is none
StrChr(psz, ch) ==
    IF \E i \in DOMAIN psz : psz[i] = ch
    THEN CHOOSE i \in DOMAIN psz :
             psz[i] = ch /\ \A k \in 1..(i - 1) : psz[k] # ch
    ELSE 0

\* a layer on which nothing has been declared yet, of a data source opened
\* with the given options
NewDecl(bLaundering, bTagsAsHSTORE, bHasOSMId) ==
    [bAttributeNameLaundering   |-> bLaundering,
     m_bTagsAsHSTORE            |-> bTagsAsHSTORE,
     m_bHasOSMId                |-> bHasOSMId,
     m_hDBForComputedAttributes |-> FALSE,
     fieldDefn                  |-> <<>>,
     m_apszNames                |-> <<>>,
     m_oMapFieldNameToIndex     |-> [n \in {} |-> NoIndex],
     m_nIndexOSMId              |-> NoIndex,
     m_nIndexOSMWayId           |-> NoIndex,
     m_nIndexOtherTags          |-> NoIndex,
     m_nIndexAllTags            |-> NoIndex,
     aoSetIgnoreKeys            |-> {},
     m_oComputedAttributes      |-> <<>>]

\* the names of the model are shorter than szLaunderedFieldName
GetLaunderedFieldName(d, pszName) ==
    IF d.bAttributeNameLaundering /\ StrChr(pszName, ":") # 0
    THEN [i \in DOMAIN pszName |->
              IF pszName[i] = ":" THEN "_" ELSE pszName[i]]
    ELSE pszName

\* m_poFeatureDefn->AddFieldDefn(): the field is appended
AddFieldDefn(d, pszName) ==
    [d EXCEPT !.fieldDefn = Append(@, pszName)]

\* m_poFeatureDefn->GetFieldCount()
GetFieldCount(d) == Len(d.fieldDefn)

\* m_poFeatureDefn->GetFieldIndex(): index of the first field of that name
FeatureDefn_GetFieldIndex(d, pszName) ==
    IF \E i \in DOMAIN d.fieldDefn : d.fieldDefn[i] = pszName
    THEN (CHOOSE i \in DOMAIN d.fieldDefn :
              /\ d.fieldDefn[i] = pszName
              /\ \A k \in 1..(i - 1) : d.fieldDefn[k] # pszName) - 1
    ELSE NoIndex

AddField_KeepFirst(d, pszName) ==
    LET d1 == AddFieldDefn(d, GetLaunderedFieldName(d, pszName))
        nIndex == GetFieldCount(d1) - 1
    IN [d1 EXCEPT
           !.m_apszNames = Append(@, pszName),
           !.m_oMapFieldNameToIndex =
               [n \in DOMAIN @ \cup {pszName} |->
                    IF n \in DOMAIN @ THEN @[n] ELSE nIndex],
           !.m_nIndexOSMId =
               IF pszName = <<"osm_id">> THEN nIndex ELSE @,
           !.m_nIndexOSMWayId =
               IF pszName = <<"osm_way_id">> THEN nIndex ELSE @,
           !.m_nIndexOtherTags =
               IF pszName = <<"other_tags">> THEN nIndex ELSE @,
           !.m_nIndexAllTags =
               IF pszName = <<"all_tags">> THEN nIndex ELSE @]

AddField(d, pszName) ==
    LET d1 == AddFieldDefn(d, GetLaunderedFieldName(d, pszName))
        nIndex == GetFieldCount(d1) - 1
    IN [d1 EXCEPT
           !.m_apszNames = Append(@, pszName),
           !.m_oMapFieldNameToIndex =
               [n \in DOMAIN @ \cup {pszName} |->
                    IF n = pszName THEN nIndex ELSE @[n]],
           !.m_nIndexOSMId =
               IF pszName = <<"osm_id">> THEN nIndex ELSE @,
           !.m_nIndexOSMWayId =
               IF pszName = <<"osm_way_id">> THEN nIndex ELSE @,
           !.m_nIndexOtherTags =
               IF pszName = <<"other_tags">> THEN nIndex ELSE @,
           !.m_nIndexAllTags =
               IF pszName = <<"all_tags">> THEN nIndex ELSE @]

GetFieldIndex(d, pszName) ==
    IF pszName \in DOMAIN d.m_oMapFieldNameToIndex
    THEN d.m_oMapFieldNameToIndex[pszName]
    ELSE NoIndex

AddIgnoreKey(d, pszK) ==
    [d EXCEPT !.aoSetIgnoreKeys = @ \cup {pszK}]

\* The key is a C string in memory, pszK followed by NUL.  When the key has
\* a colon the character after the first colon is overwritten with NUL for
\* the second lookup, then written back.  The result holds the answer and the
\* key as it stands in memory after the call.
AddInOtherOrAllTags_FullKeyOnly(d, pszK) ==
    [bAddToOtherTags |-> pszK \notin d.aoSetIgnoreKeys, pszK |-> pszK]

AddInOtherOrAllTags(d, pszK) ==
    LET mem == pszK \o <<NUL>>
        nColon == StrChr(pszK, ":")
        chBackup == mem[nColon + 1]
        memCut == [mem EXCEPT ![nColon + 1] = NUL]
        memBack == [memCut EXCEPT ![nColon + 1] = chBackup]
    IN IF pszK \in d.aoSetIgnoreKeys
       THEN [bAddToOtherTags |-> FALSE, pszK |-> pszK]
       ELSE IF nColon # 0
            THEN [bAddToOtherTags |-> CStr(memCut) \notin d.aoSetIgnoreKeys,
                  pszK |-> CStr(memBack)]
            ELSE [bAddToOtherTags |-> TRUE, pszK |-> pszK]

EscapeHSTORE_Raw(pszV) == pszV

RECURSIVE EscapeHSTORE(_)
EscapeHSTORE(pszV) ==
    IF pszV = <<>> THEN <<>>
    ELSE (IF Head(pszV) \in {"\"", "\\"}
          THEN <<"\\", Head(pszV)>>
          ELSE <<Head(pszV)>>) \o EscapeHSTORE(Tail(pszV))

OGROSMEscapeStringHSTORE(pszV, sOut) ==
    sOut \o <<"\"">> \o EscapeHSTORE(pszV) \o <<"\"">>

\* the control characters of the model below ' ' other than \n, \r, \t,
\* with the four hexadecimal digits CPLSPrintf("\\u%04X") prints for them
ControlChars == {"\f"}

Hex4(ch) == IF ch = "\f" THEN <<"0", "0", "0", "C">> ELSE <<>>

RECURSIVE EscapeJSON(_)
EscapeJSON(pszV) ==
    IF pszV = <<>> THEN <<>>
    ELSE LET ch == Head(pszV)
         IN (CASE ch = "\"" -> <<"\\", "\"">>
               [] ch = "\\" -> <<"\\", "\\">>
               [] ch = "\n" -> <<"\\", "n">>
               [] ch = "\r" -> <<"\\", "r">>
               [] ch = "\t" -> <<"\\", "t">>
               [] ch \in ControlChars -> <<"\\", "u">> \o Hex4(ch)
               [] OTHER -> <<ch>>) \o EscapeJSON(Tail(pszV))

OGROSMEscapeStringJSON(pszV, sOut) ==
    sOut \o <<"\"">> \o EscapeJSON(pszV) \o <<"\"">>

\* the tags of an entity are a sequence of [pszK, pszV]; found = FALSE
\* stands for the null pointer
GetValueOfTag(pszKeyToSearch, pasTags) ==
    IF \E k \in DOMAIN pasTags : pasTags[k].pszK = pszKeyToSearch
    THEN [found |-> TRUE,
          pszV |-> pasTags[CHOOSE k \in DOMAIN pasTags :
                       /\ pasTags[k].pszK = pszKeyToSearch
                       /\ \A k2 \in 1..(k - 1) :
                              pasTags[k2].pszK # pszKeyToSearch].pszV]
    ELSE [found |-> FALSE, pszV |-> <<>>]

\* a field of a feature: unset, or set to a value
UnsetField == [set |-> FALSE, v |-> <<>>]

\* poFeature->SetField(): an index that is not one of a field sets nothing
SetField(fields, nIndex, v) ==
    IF nIndex >= 0 /\ nIndex < Len(fields)
    THEN [fields EXCEPT ![nIndex + 1] = [set |-> TRUE, v |-> v]]
    ELSE fields

\* poFeature->IsFieldSetAndNotNull()
IsFieldSetAndNotNull(fields, nIndex) ==
    nIndex >= 0 /\ nIndex < Len(fields) /\ fields[nIndex + 1].set

\* snprintf(szID, sizeof(szID), CPL_FRMT_GIB, nID)
FormatID(nID) == <<ToString(nID)>>


----------------------------------------------------------------------------
\* Computed attributes

\* number of bits of an int, scaled down
IntBits == 7

IntMax == 2 ^ (IntBits - 1) - 1

IntMin == -(2 ^ (IntBits - 1))

Ints == IntMin..IntMax

\* position from 0 of the first ch of s at or after position nFrom, NPos
\* when there is none (std::string::find)
NPos == -1

Find(s, ch, nFrom) ==
    IF \E i \in (nFrom + 1)..Len(s) : s[i] = ch
    THEN (CHOOSE i \in (nFrom + 1)..Len(s) :
              s[i] = ch /\ \A k \in (nFrom + 1)..(i - 1) : s[k] # ch) - 1
    ELSE NPos

\* s.substr(nPos) and s.substr(nPos, n), nPos <= s.size()
SubstrFrom(s, nPos) == SubSeq(s, nPos + 1, Len(s))

Substr(s, nPos, n) == SubSeq(s, nPos + 1, nPos + n)

DecimalDigits == <<"0", "1", "2", "3", "4", "5", "6", "7", "8", "9">>

IsDigit(ch) == \E n \in DOMAIN DecimalDigits : DecimalDigits[n] = ch

DigitValue(ch) == (CHOOSE n \in DOMAIN DecimalDigits : DecimalDigits[n] = ch) - 1

RECURSIVE SkipBlanks(_)
SkipBlanks(psz) ==
    IF psz # <<>> /\ Head(psz) \in {" ", "\t", "\n", "\r", "\f"}
    THEN SkipBlanks(Tail(psz))
    ELSE psz

RECURSIVE LeadingDigits(_, _)
LeadingDigits(psz, n) ==
    IF psz = <<>> \/ ~IsDigit(Head(psz)) THEN n
    ELSE LeadingDigits(Tail(psz), 10 * n + DigitValue(Head(psz)))

\* the number that the longest prefix of blanks, a sign and digits writes;
\* 0 when there is no digit
LeadingInteger(psz) ==
    LET s == SkipBlanks(psz)
        bSign == s # <<>> /\ Head(s) \in {"-", "+"}
        n == LeadingDigits(IF bSign THEN Tail(s) ELSE s, 0)
    IN IF bSign /\ Head(s) = "-" THEN -n ELSE n

\* atoi(): the number written, whatever the build produces when an int
\* cannot hold it
atoi(psz, nUndef) ==
    IF LeadingInteger(psz) \in Ints THEN LeadingInteger(psz) ELSE nUndef

\* CAST(... AS INTEGER) of the engine, on a text
CastAsInteger(psz) == LeadingInteger(psz)

ZOrderSQL ==
    <<"SELECT (CASE ", "[", "highway", "]",
      " WHEN 'minor' THEN 3 WHEN 'road' THEN 3 WHEN 'unclassified' THEN 3 WHEN 'residential' THEN 3 WHEN 'tertiary_link' THEN 4 WHEN 'tertiary' THEN 4 WHEN 'secondary_link' THEN 6 WHEN 'secondary' THEN 6 WHEN 'primary_link' THEN 7 WHEN 'primary' THEN 7 WHEN 'trunk_link' THEN 8 WHEN 'trunk' THEN 8 WHEN 'motorway_link' THEN 9 WHEN 'motorway' THEN 9 ELSE 0 END) + (CASE WHEN ",
      "[", "bridge", "]",
      " IN ('yes', 'true', '1') THEN 10 ELSE 0 END) + (CASE WHEN ",
      "[", "tunnel", "]",
      " IN ('yes', 'true', '1') THEN -10 ELSE 0 END) + (CASE WHEN ",
      "[", "railway", "]",
      " IS NOT NULL THEN 5 ELSE 0 END) + (CASE WHEN ",
      "[", "layer", "]",
      " IS NOT NULL THEN 10 * CAST(",
      "[", "layer", "]",
      " AS INTEGER) ELSE 0 END)">>

\* The loop that takes the [name] out of the expression; st is
\* [osSQL, nStartSearch, aosAttrToBind, anIndexToBind].
RECURSIVE ExtractAttrToBind(_, _)
ExtractAttrToBind(d, st) ==
    LET osSQL == st.osSQL
        nPos == Find(osSQL, "[", st.nStartSearch)
        osAttrAll == SubstrFrom(osSQL, nPos + 1)
        nPos2 == Find(osAttrAll, "]", 0)
        osAttr == Substr(osAttrAll, 0, nPos2)
    IN IF nPos = NPos THEN st
       ELSE IF nPos > 0 /\ osSQL[(nPos - 1) + 1] # "\\"
            THEN IF nPos2 = NPos THEN st
                 ELSE ExtractAttrToBind(d,
                          [osSQL |-> Substr(osSQL, 0, nPos) \o <<"?">>
                                     \o SubstrFrom(osSQL, nPos + 1 + nPos2 + 1),
                           nStartSearch |-> nPos + 1,
                           aosAttrToBind |-> Append(st.aosAttrToBind, osAttr),
                           anIndexToBind |->
                               Append(st.anIndexToBind,
                                      FeatureDefn_GetFieldIndex(d, osAttr))])
            ELSE ExtractAttrToBind(d, [st EXCEPT !.nStartSearch = nPos + 1])

\* the loop that takes the backslashes out of the rewritten expression
RECURSIVE RemoveBackslashes(_)
RemoveBackslashes(osSQL) ==
    LET nPos == Find(osSQL, "\\", 0)
    IN IF nPos = NPos \/ nPos = Len(osSQL) - 1 THEN osSQL
       ELSE RemoveBackslashes(Substr(osSQL, 0, nPos)
                              \o SubstrFrom(osSQL, nPos + 1))

\* lines 1007-1037: the expression rewritten and the names to bind
ParseSQL(d, pszSQL) ==
    LET st == ExtractAttrToBind(d, [osSQL |-> pszSQL, nStartSearch |-> 0,
                                    aosAttrToBind |-> <<>>,
                                    anIndexToBind |-> <<>>])
    IN [osSQL |-> RemoveBackslashes(st.osSQL),
        osSQLBound |-> st.osSQL,
        aosAttrToBind |-> st.aosAttrToBind,
        anIndexToBind |-> st.anIndexToBind]

\* bOpenOK and bPrepareOK are what sqlite3_open_v2() and sqlite3_prepare_v2()
\* answer; the first is asked for only while no database is open
AddComputedAttribute_AddsOnFailure(d, pszName, eType, pszSQL, bOpenOK, bPrepareOK) ==
    LET parsed == ParseSQL(d, pszSQL)
        d2 == AddFieldDefn(d, pszName)
    IN IF ~d.m_hDBForComputedAttributes /\ ~bOpenOK THEN d
       ELSE IF FeatureDefn_GetFieldIndex(d, pszName) >= 0
       THEN [d EXCEPT !.m_hDBForComputedAttributes = TRUE]
       ELSE
       [d2 EXCEPT
           !.m_hDBForComputedAttributes = TRUE,
           !.m_oComputedAttributes =
               Append(@, [pszName |-> pszName,
                          eType |-> eType,
                          nIndex |-> GetFieldCount(d2) - 1,
                          osSQL |-> pszSQL,
                          hStmt |-> parsed.osSQL,
                          aosAttrToBind |-> parsed.aosAttrToBind,
                          anIndexToBind |-> parsed.anIndexToBind,
                          bHardcodedZOrder |->
                              eType = "OFTInteger" /\ pszSQL = ZOrderSQL])]

AddComputedAttribute(d, pszName, eType, pszSQL, bOpenOK, bPrepareOK) ==
    LET d1 == [d EXCEPT !.m_hDBForComputedAttributes = TRUE]
        parsed == ParseSQL(d1, pszSQL)
        d2 == AddFieldDefn(d1, pszName)
    IN IF ~d.m_hDBForComputedAttributes /\ ~bOpenOK THEN d
       ELSE IF FeatureDefn_GetFieldIndex(d1, pszName) >= 0 THEN d1
       ELSE IF ~bPrepareOK THEN d1
       ELSE [d2 EXCEPT
                !.m_oComputedAttributes =
                    Append(@, [pszName |-> pszName,
                               eType |-> eType,
                               nIndex |-> GetFieldCount(d2) - 1,
                               osSQL |-> pszSQL,
                               hStmt |-> parsed.osSQL,
                               aosAttrToBind |-> parsed.aosAttrToBind,
                               anIndexToBind |-> parsed.anIndexToBind,
                               bHardcodedZOrder |->
                                   eType = "OFTInteger" /\ pszSQL = ZOrderSQL])]

\* the null pointer, or NULL of the engine
NullValue == [found |-> FALSE, pszV |-> <<>>]

\* the canonical expression as sqlite3_prepare_v2() receives it
ZOrderStmt == ParseSQL(NewDecl(FALSE, FALSE, FALSE), ZOrderSQL).osSQL

\* the decimal writing of an integer
RECURSIVE NatToChars(_)
NatToChars(n) ==
    IF n < 10 THEN <<DecimalDigits[n + 1]>>
    ELSE NatToChars(n \div 10) \o <<DecimalDigits[(n % 10) + 1]>>

IntToChars(n) == IF n < 0 THEN <<"-">> \o NatToChars(-n) ELSE NatToChars(n)

\* The field nIndex holds an integer: it is the field of a computed
\* attribute of an integer type whose value is that of the canonical
\* expression.  Every other field of the model holds a text.
HoldsInteger(d, nIndex) ==
    \E i \in DOMAIN d.m_oComputedAttributes :
        LET oAttr == d.m_oComputedAttributes[i]
        IN /\ oAttr.nIndex = nIndex
           /\ oAttr.eType # "OFTString"
           /\ (oAttr.bHardcodedZOrder \/ oAttr.hStmt = ZOrderStmt)

\* poFeature->GetFieldAsString() of a field that is set
GetFieldAsString(d, fields, nIndex) ==
    IF HoldsInteger(d, nIndex) THEN IntToChars(fields[nIndex + 1].v)
    ELSE fields[nIndex + 1].v

\* the value of the j-th name of a computed attribute for the feature: the
\* field of the feature, as a text, when the name was that of a field at
\* declaration, else the value of the first tag of that key
ValueToBind(d, oAttr, j, fields, pasTags) ==
    IF oAttr.anIndexToBind[j] >= 0
    THEN IF IsFieldSetAndNotNull(fields, oAttr.anIndexToBind[j])
         THEN [found |-> TRUE,
               pszV |-> GetFieldAsString(d, fields, oAttr.anIndexToBind[j])]
         ELSE NullValue
    ELSE GetValueOfTag(oAttr.aosAttrToBind[j], pasTags)

HighwayScore(pszHighway) ==
    CASE pszHighway \in {<<"minor">>, <<"road">>, <<"unclassified">>,
                         <<"residential">>} -> 3
      [] pszHighway \in {<<"tertiary_link">>, <<"tertiary">>} -> 4
      [] pszHighway \in {<<"secondary_link">>, <<"secondary">>} -> 6
      [] pszHighway \in {<<"primary_link">>, <<"primary">>} -> 7
      [] pszHighway \in {<<"trunk_link">>, <<"trunk">>} -> 8
      [] pszHighway \in {<<"motorway_link">>, <<"motorway">>} -> 9
      [] OTHER -> 0

IsYes(psz) == psz \in {<<"yes">>, <<"true">>, <<"1">>}

\* the sum before the layer is added
ZOrderWithoutLayer(d, oAttr, fields, pasTags) ==
    LET h == ValueToBind(d, oAttr, 1, fields, pasTags)
        b == ValueToBind(d, oAttr, 2, fields, pasTags)
        t == ValueToBind(d, oAttr, 3, fields, pasTags)
        r == ValueToBind(d, oAttr, 4, fields, pasTags)
    IN (IF h.found THEN HighwayScore(h.pszV) ELSE 0)
       + (IF b.found /\ IsYes(b.pszV) THEN 10 ELSE 0)
       + (IF t.found /\ IsYes(t.pszV) THEN -10 ELSE 0)
       + (IF r.found THEN 5 ELSE 0)

\* an int cannot hold the layer, ten times the layer, or the sum
ZOrderOverflows(d, oAttr, fields, pasTags) ==
    LET l == ValueToBind(d, oAttr, 5, fields, pasTags)
        n == LeadingInteger(l.pszV)
    IN /\ l.found
       /\ \/ n \notin Ints
          \/ 10 * n \notin Ints
          \/ ZOrderWithoutLayer(d, oAttr, fields, pasTags) + 10 * n \notin Ints

\* lines 693-833; nUndef is what the build produces when the arithmetic on
\* int overflows
HardcodedZOrder(d, oAttr, fields, pasTags, nUndef) ==
    LET l == ValueToBind(d, oAttr, 5, fields, pasTags)
    IN IF ZOrderOverflows(d, oAttr, fields, pasTags) THEN nUndef
       ELSE ZOrderWithoutLayer(d, oAttr, fields, pasTags)
            + (IF l.found THEN 10 * atoi(l.pszV, nUndef) ELSE 0)

\* the values bound to the parameters of the statement: bInt when the
\* value is bound as an integer (sqlite3_bind_int, sqlite3_bind_int64)
BoundValues(d, oAttr, fields, pasTags) ==
    [j \in DOMAIN oAttr.anIndexToBind |->
         LET v == ValueToBind(d, oAttr, j, fields, pasTags)
         IN [found |-> v.found, pszV |-> v.pszV,
             bInt |-> /\ v.found
                      /\ oAttr.anIndexToBind[j] >= 0
                      /\ HoldsInteger(d, oAttr.anIndexToBind[j])]]

\* the canonical expression as the engine evaluates it on its six
\* parameters; an integer equals none of the texts it is compared with
ZOrderExpression(bound) ==
    (IF bound[1].found /\ ~bound[1].bInt THEN HighwayScore(bound[1].pszV)
     ELSE 0)
    + (IF bound[2].found /\ ~bound[2].bInt /\ IsYes(bound[2].pszV) THEN 10
       ELSE 0)
    + (IF bound[3].found /\ ~bound[3].bInt /\ IsYes(bound[3].pszV) THEN -10
       ELSE 0)
    + (IF bound[4].found THEN 5 ELSE 0)
    + (IF bound[5].found THEN 10 * CastAsInteger(bound[6].pszV) ELSE 0)

\* sqlite3_step() and the column it yields: the value of the canonical
\* expression for its statement; for another statement, a text that stands
\* for what the engine yields for the statement with these values bound
Sqlite3Step(hStmt, bound) ==
    IF hStmt = ZOrderStmt
    THEN ZOrderExpression(bound)
    ELSE <<ToString([hStmt |-> hStmt, bound |-> bound])>>

\* poFeature->SetField() of the value of a computed attribute: a field of
\* type OFTString keeps an integer as its decimal writing
ComputedValue(oAttr, v) ==
    IF oAttr.hStmt = ZOrderStmt /\ oAttr.eType = "OFTString"
    THEN IntToChars(v)
    ELSE v

\* lines 688-915: the computed attributes, in the order of their declaration
RECURSIVE SetComputedAttributes(_, _, _, _, _)
SetComputedAttributes(d, i, fields, pasTags, nUndef) ==
    IF i > Len(d.m_oComputedAttributes) THEN fields
    ELSE LET oAttr == d.m_oComputedAttributes[i]
         IN SetComputedAttributes(d, i + 1,
                SetField(fields, oAttr.nIndex,
                         IF oAttr.bHardcodedZOrder
                         THEN HardcodedZOrder(d, oAttr, fields, pasTags, nUndef)
                         ELSE ComputedValue(oAttr,
                                  Sqlite3Step(oAttr.hStmt,
                                      BoundValues(d, oAttr, fields, pasTags)))),
                pasTags, nUndef)

\* lines 626-674: the tags, in their order; st is [fields, m_osAllTagsBuffer]
RECURSIVE SetTags(_, _, _, _)
SetTags(d, pasTags, j, st) ==
    IF j > Len(pasTags) THEN st
    ELSE LET pszV == pasTags[j].pszV
             nIndex == GetFieldIndex(d, pasTags[j].pszK)
             bSet == nIndex >= 0 /\ nIndex # d.m_nIndexOSMId
             bAggregate ==
                 /\ ~(bSet /\ d.m_nIndexAllTags < 0)
                 /\ (d.m_nIndexAllTags >= 0 \/ d.m_nIndexOtherTags >= 0)
             added == AddInOtherOrAllTags(d, pasTags[j].pszK)
             buf == st.m_osAllTagsBuffer
         IN SetTags(d, pasTags, j + 1,
                [fields |-> IF bSet THEN SetField(st.fields, nIndex, pszV)
                            ELSE st.fields,
                 m_osAllTagsBuffer |->
                     IF ~(bAggregate /\ added.bAddToOtherTags) THEN buf
                     ELSE IF d.m_bTagsAsHSTORE
                     THEN OGROSMEscapeStringHSTORE(pszV,
                              OGROSMEscapeStringHSTORE(added.pszK,
                                  IF buf # <<>> THEN buf \o <<",">> ELSE buf)
                              \o <<"=", ">">>)
                     ELSE OGROSMEscapeStringJSON(pszV,
                              OGROSMEscapeStringJSON(added.pszK,
                                  IF buf # <<>> THEN buf \o <<",">>
                                  ELSE <<"{">>)
                              \o <<":">>)])

\* The feature that SetFieldsFromTags() fills, from a feature with no field
\* set.  The layers of the model have none of osm_version, osm_timestamp,
\* osm_uid, osm_user, osm_changeset (m_bHasVersion and the like are false).
SetFieldsFromTags(d, nID, bIsWayID, pasTags, nUndef) ==
    LET fields0 == [i \in 1..GetFieldCount(d) |-> UnsetField]
        fields1 ==
            IF ~bIsWayID
            THEN IF d.m_bHasOSMId
                 THEN SetField(fields0, d.m_nIndexOSMId, FormatID(nID))
                 ELSE fields0
            ELSE IF d.m_nIndexOSMWayId >= 0
                 THEN SetField(fields0, d.m_nIndexOSMWayId, FormatID(nID))
                 ELSE fields0
        st == SetTags(d, pasTags, 1,
                      [fields |-> fields1, m_osAllTagsBuffer |-> <<>>])
        buf == IF st.m_osAllTagsBuffer # <<>> /\ ~d.m_bTagsAsHSTORE
               THEN st.m_osAllTagsBuffer \o <<"}">>
               ELSE st.m_osAllTagsBuffer
        fields2 ==
            IF buf = <<>> THEN st.fields
            ELSE IF d.m_nIndexAllTags >= 0
            THEN SetField(st.fields, d.m_nIndexAllTags, buf)
            ELSE SetField(st.fields, d.m_nIndexOtherTags, buf)
    IN [nFID |-> nID,
        fields |-> SetComputedAttributes(d, 1, fields2, pasTags, nUndef),
        m_osAllTagsBuffer |-> buf]


----------------------------------------------------------------------------
\* The projection of the tags of one entity, on a layer whose fields and
\* ignored keys have been declared: SetFieldsFromTags() reads the
\* declarations and the entity, nothing of the reading of the stream.

\* bounds of the declarations and of the entity
MaxFields == 2

MaxTags == 2

SeqsUpTo(S, n) == UNION {[1..k -> S] : k \in 0..n}

FieldNames ==
    {<<"osm_id">>, <<"osm_way_id">>, <<"other_tags">>, <<"all_tags">>,
     <<"highway">>, <<"name">>}

IgnoreKeys == {<<"a", ":">>, <<"name">>}

TagKeys ==
    {<<"highway">>, <<"name">>, <<"osm_id">>, <<"osm_way_id">>,
     <<"a", ":", "\"", "\\", ":", "\f", "\n">>}

\* every key with one value, and highway with a second one
Tags ==
    [pszK : TagKeys, pszV : {<<"Main St">>}]
        \cup {[pszK |-> <<"highway">>, pszV |-> <<"residential">>]}

EntityIds == {42}

\* AddField() called for each name in turn
RECURSIVE AddFields(_, _)
AddFields(d, names) ==
    IF names = <<>> THEN d
    ELSE AddFields(AddField(d, Head(names)), Tail(names))

RECURSIVE AddIgnoreKeys(_, _)
AddIgnoreKeys(d, keys) ==
    IF keys = {} THEN d
    ELSE LET k == CHOOSE k \in keys : TRUE
         IN AddIgnoreKeys(AddIgnoreKey(d, k), keys \ {k})

TagInit ==
    /\ ReadingInit
    /\ ~bInterleaved
    /\ \E names \in SeqsUpTo(FieldNames, MaxFields),
          keys \in SUBSET IgnoreKeys,
          bTagsAsHSTORE \in BOOLEAN, bHasOSMId \in BOOLEAN :
           decl = AddIgnoreKeys(
                      AddFields(NewDecl(FALSE, bTagsAsHSTORE, bHasOSMId),
                                names),
                      keys)
    /\ \E nID \in EntityIds, bIsWayID \in BOOLEAN,
          pasTags \in SeqsUpTo(Tags, MaxTags) :
           ev = [op |-> "entity", nID |-> nID, bIsWayID |-> bIsWayID,
                 pasTags |-> pasTags]

\* the arithmetic on int of some computed attribute of the layer overflows
\* for the entity
Overflows(d, nID, bIsWayID, pasTags) ==
    \E i \in DOMAIN d.m_oComputedAttributes :
        /\ d.m_oComputedAttributes[i].bHardcodedZOrder
        /\ ZOrderOverflows(d, d.m_oComputedAttributes[i],
                           SetFieldsFromTags(d, nID, bIsWayID, pasTags, 0).fields,
                           pasTags)

\* SetFieldsFromTags() is called for the entity; when the arithmetic on int
\* overflows the build may produce any int
SetFieldsFromTagsCall ==
    /\ ev.op = "entity"
    /\ LET bOverflow == Overflows(decl, ev.nID, ev.bIsWayID, ev.pasTags)
       IN \E nUndef \in IF bOverflow THEN Ints ELSE {0} :
              ev' = [op |-> "SetFieldsFromTags", nID |-> ev.nID,
                     bIsWayID |-> ev.bIsWayID, pasTags |-> ev.pasTags,
                     bOverflow |-> bOverflow,
                     feature |-> SetFieldsFromTags(decl, ev.nID, ev.bIsWayID,
                                                   ev.pasTags, nUndef)]
    /\ UNCHANGED <<rvars, decl>>

TagNext == SetFieldsFromTagsCall

TagSpec == TagInit /\ [][TagNext]_vars

\* the tags of the entity of the last call whose key is pszK
TagsOfKey(pszK) ==
    {j \in DOMAIN ev.pasTags : ev.pasTags[j].pszK = pszK}

\* the fields declared with AddField(), by index
DeclaredFields == 0..(Len(decl.m_apszNames) - 1)

\* the fields declared under the name of the identifier of the record:
\* osm_id, and osm_way_id for a record derived from a way
IdentifierFields ==
    {i \in DeclaredFields :
         \/ decl.m_apszNames[i + 1] = <<"osm_id">>
         \/ ev.bIsWayID /\ decl.m_apszNames[i + 1] = <<"osm_way_id">>}

\* the fields declared under the names of the aggregates of tags
AggregateFields ==
    {i \in DeclaredFields :
         decl.m_apszNames[i + 1] \in {<<"other_tags">>, <<"all_tags">>}}

\* the fields that receive nothing but the value of a tag
TagMappedFields == DeclaredFields \ (IdentifierFields \cup AggregateFields)

\* field i of the feature is set to the value of a tag of its key when there
\* is one, and is unset when there is none
SetFromATag(i) ==
    LET js == TagsOfKey(decl.m_apszNames[i + 1])
        f == ev.feature.fields[i + 1]
    IN IF js = {} THEN ~f.set
       ELSE f.set /\ \E j \in js : f.v = ev.pasTags[j].pszV

\* the same, the value being that of the last tag of the key
SetFromLastTag(i) ==
    LET js == TagsOfKey(decl.m_apszNames[i + 1])
        f == ev.feature.fields[i + 1]
    IN IF js = {} THEN ~f.set
       ELSE f.set
            /\ f.v = ev.pasTags[CHOOSE j \in js : \A k \in js : k <= j].pszV

----------------------------------------------------------------------------
\* The aggregate of the tags, read back.  Reading a text yields
\* [ok, text, rest]; reading the aggregate yields [ok, pairs], pairs being
\* the sequence of its [pszK, pszV].

Malformed == [ok |-> FALSE, pairs |-> <<>>]

\* a text between double quotes in which \ announces a character taken as it
\* is (hstore)
RECURSIVE ReadHSTOREChars(_, _)
ReadHSTOREChars(s, acc) ==
    IF s = <<>> THEN [ok |-> FALSE, text |-> acc, rest |-> <<>>]
    ELSE IF Head(s) = "\"" THEN [ok |-> TRUE, text |-> acc, rest |-> Tail(s)]
    ELSE IF Head(s) = "\\"
    THEN IF Len(s) < 2 THEN [ok |-> FALSE, text |-> acc, rest |-> <<>>]
         ELSE ReadHSTOREChars(SubSeq(s, 3, Len(s)), Append(acc, s[2]))
    ELSE ReadHSTOREChars(Tail(s), Append(acc, Head(s)))

ReadHSTOREText(s) ==
    IF s # <<>> /\ Head(s) = "\""
    THEN ReadHSTOREChars(Tail(s), <<>>)
    ELSE [ok |-> FALSE, text |-> <<>>, rest |-> <<>>]

\* "k"=>"v","k"=>"v"...
RECURSIVE ReadHSTORE(_, _)
ReadHSTORE(s, acc) ==
    LET k == ReadHSTOREText(s)
        v == ReadHSTOREText(SubSeq(k.rest, 3, Len(k.rest)))
        pairs == Append(acc, [pszK |-> k.text, pszV |-> v.text])
    IN IF ~k.ok \/ Len(k.rest) < 2 \/ SubSeq(k.rest, 1, 2) # <<"=", ">">>
       THEN Malformed
       ELSE IF ~v.ok THEN Malformed
       ELSE IF v.rest = <<>> THEN [ok |-> TRUE, pairs |-> pairs]
       ELSE IF Head(v.rest) # "," THEN Malformed
       ELSE ReadHSTORE(Tail(v.rest), pairs)

\* the character that \u and four hexadecimal digits write
CharOfHex4(h) ==
    IF \E ch \in ControlChars : Hex4(ch) = h
    THEN CHOOSE ch \in ControlChars : Hex4(ch) = h
    ELSE "?"

\* a JSON string: no control character as it is, \ followed by one of
\* " \ n r t or by u and four digits
RECURSIVE ReadJSONChars(_, _)
ReadJSONChars(s, acc) ==
    IF s = <<>> THEN [ok |-> FALSE, text |-> acc, rest |-> <<>>]
    ELSE IF Head(s) = "\"" THEN [ok |-> TRUE, text |-> acc, rest |-> Tail(s)]
    ELSE IF Head(s) \in {"\n", "\r", "\t"} \cup ControlChars
    THEN [ok |-> FALSE, text |-> acc, rest |-> <<>>]
    ELSE IF Head(s) # "\\"
    THEN ReadJSONChars(Tail(s), Append(acc, Head(s)))
    ELSE IF Len(s) < 2 THEN [ok |-> FALSE, text |-> acc, rest |-> <<>>]
    ELSE IF s[2] \in {"\"", "\\"}
    THEN ReadJSONChars(SubSeq(s, 3, Len(s)), Append(acc, s[2]))
    ELSE IF s[2] = "n" THEN ReadJSONChars(SubSeq(s, 3, Len(s)), Append(acc, "\n"))
    ELSE IF s[2] = "r" THEN ReadJSONChars(SubSeq(s, 3, Len(s)), Append(acc, "\r"))
    ELSE IF s[2] = "t" THEN ReadJSONChars(SubSeq(s, 3, Len(s)), Append(acc, "\t"))
    ELSE IF s[2] = "u" /\ Len(s) >= 6
    THEN ReadJSONChars(SubSeq(s, 7, Len(s)),
                       Append(acc, CharOfHex4(SubSeq(s, 3, 6))))
    ELSE [ok |-> FALSE, text |-> acc, rest |-> <<>>]

ReadJSONText(s) ==
    IF s # <<>> /\ Head(s) = "\""
    THEN ReadJSONChars(Tail(s), <<>>)
    ELSE [ok |-> FALSE, text |-> <<>>, rest |-> <<>>]

\* "k":"v","k":"v"...}
RECURSIVE ReadJSONMembers(_, _)
ReadJSONMembers(s, acc) ==
    LET k == ReadJSONText(s)
        v == ReadJSONText(Tail(k.rest))
        pairs == Append(acc, [pszK |-> k.text, pszV |-> v.text])
    IN IF ~k.ok \/ k.rest = <<>> \/ Head(k.rest) # ":" THEN Malformed
       ELSE IF ~v.ok \/ v.rest = <<>> THEN Malformed
       ELSE IF v.rest = <<"}">> THEN [ok |-> TRUE, pairs |-> pairs]
       ELSE IF Head(v.rest) # "," THEN Malformed
       ELSE ReadJSONMembers(Tail(v.rest), pairs)

ReadJSON(s) ==
    IF s # <<>> /\ Head(s) = "{" THEN ReadJSONMembers(Tail(s), <<>>)
    ELSE Malformed

\* the key is in the ignore set, or the key has a colon and what comes up
\* to its first colon, colon included, is in the ignore set
Excluded(pszK) ==
    \/ pszK \in decl.aoSetIgnoreKeys
    \/ \E i \in DOMAIN pszK :
           /\ pszK[i] = ":"
           /\ \A k \in 1..(i - 1) : pszK[k] # ":"
           /\ SubSeq(pszK, 1, i) \in decl.aoSetIgnoreKeys

\* the tag has the name of a declared field other than osm_id
MatchesField(pszK) ==
    /\ pszK # <<"osm_id">>
    /\ \E i \in DeclaredFields : decl.m_apszNames[i + 1] = pszK

\* every tag that is not excluded and matched no field has an entry
Leftover(tag) == ~Excluded(tag.pszK) /\ ~MatchesField(tag.pszK)

\* no excluded tag has an entry; with all_tags the tags that matched a field
\* have one as well
Aggregated(tag) ==
    /\ ~Excluded(tag.pszK)
    /\ decl.m_nIndexAllTags >= 0 \/ ~MatchesField(tag.pszK)

\* the field that receives the aggregate of the tags, NoIndex when the layer
\* declares none
AggregateField ==
    IF decl.m_nIndexAllTags >= 0 THEN decl.m_nIndexAllTags
    ELSE decl.m_nIndexOtherTags

\* the aggregate written in the feature, read back
AggregateRead ==
    IF decl.m_bTagsAsHSTORE
    THEN ReadHSTORE(ev.feature.fields[AggregateField + 1].v, <<>>)
    ELSE ReadJSON(ev.feature.fields[AggregateField + 1].v)

\* C12: on a layer that declares all_tags or other_tags, the aggregate
\* written for an entity reads back, in either encoding, as the tags of the
\* entity that are not excluded by the ignore set and that matched no
\* dedicated field (on a layer with all_tags: whether or not they matched
\* one), each once and in the order of the tags; no excluded tag is in it;
\* the field is left unset when there is no such tag.
C12_Aggregate ==
    (ev.op = "SetFieldsFromTags" /\ AggregateField >= 0) =>
        LET entries == SelectSeq(ev.pasTags, Aggregated)
        IN /\ ev.feature.fields[AggregateField + 1].set <=> entries # <<>>
           /\ entries # <<>> =>
                  /\ AggregateRead = [ok |-> TRUE, pairs |-> entries]
                  /\ \A j \in DOMAIN entries : ~Excluded(entries[j].pszK)
                  /\ decl.m_nIndexAllTags < 0 =>
                         entries = SelectSeq(ev.pasTags, Leftover)

\* other_tags in the object encoding: of two tags the excluded one is left
\* out, the other one, with characters to escape in its key, is there
C12_Witness ==
    /\ ev.op = "SetFieldsFromTags"
    /\ decl.m_nIndexAllTags < 0
    /\ decl.m_nIndexOtherTags >= 0
    /\ ~decl.m_bTagsAsHSTORE
    /\ Len(ev.pasTags) = 2
    /\ Excluded(ev.pasTags[1].pszK)
    /\ "\f" \in {ev.pasTags[2].pszK[i] : i \in DOMAIN ev.pasTags[2].pszK}
    /\ AggregateRead = [ok |-> TRUE, pairs |-> <<ev.pasTags[2]>>]


\* what comes up to the first colon of the key, colon included
NamespacePrefix(pszK) == SubSeq(pszK, 1, StrChr(pszK, ":"))

\* C13: for every tag whose key is ns:suffix with the prefix ns: (up to the
\* first colon) in the ignore set, the suffix having colons of its own or not,
\* AddInOtherOrAllTags answers that the tag is not to be added, although the
\* whole key is not in the ignore set; whatever the key, it stands in memory
\* after the call as it stood before; and the aggregate written for an entity
\* has no entry for such a key.
C13_NamespaceExcluded ==
    ev.op = "SetFieldsFromTags" =>
        /\ \A j \in DOMAIN ev.pasTags :
               LET pszK == ev.pasTags[j].pszK
               IN /\ AddInOtherOrAllTags(decl, pszK).pszK = pszK
                  /\ (StrChr(pszK, ":") # 0
                      /\ NamespacePrefix(pszK) \in decl.aoSetIgnoreKeys)
                         => ~AddInOtherOrAllTags(decl, pszK).bAddToOtherTags
        /\ (AggregateField >= 0 /\ ev.feature.fields[AggregateField + 1].set)
               => \A j \in DOMAIN AggregateRead.pairs :
                      LET pszK == AggregateRead.pairs[j].pszK
                      IN StrChr(pszK, ":") # 0
                             => NamespacePrefix(pszK) \notin decl.aoSetIgnoreKeys

\* a: is ignored; the entity has a tag a:...:... and a tag highway; the
\* aggregate written has the second one only
C13_Witness ==
    /\ ev.op = "SetFieldsFromTags"
    /\ decl.aoSetIgnoreKeys = {<<"a", ":">>}
    /\ decl.m_apszNames = <<<<"other_tags">>>>
    /\ Len(ev.pasTags) = 2
    /\ ev.pasTags[1].pszK = <<"a", ":", "\"", "\\", ":", "\f", "\n">>
    /\ ev.pasTags[2].pszK = <<"highway">>
    /\ AggregateRead = [ok |-> TRUE, pairs |-> <<ev.pasTags[2]>>]


\* the field that receives the identifier of the record: osm_id (on a layer
\* told to have it) for a primary entity, osm_way_id for a record derived
\* from a way; NoIndex when the layer does not declare it
IdentifierField ==
    IF ev.bIsWayID THEN decl.m_nIndexOSMWayId
    ELSE IF decl.m_bHasOSMId THEN decl.m_nIndexOSMId
    ELSE NoIndex

\* C17: after SetFieldsFromTags the identifier field of the record, when the
\* layer declares it, holds the id of the entity, whatever the tags.
C17_IdentifierKept ==
    (ev.op = "SetFieldsFromTags" /\ IdentifierField >= 0) =>
        ev.feature.fields[IdentifierField + 1] =
            [set |-> TRUE, v |-> FormatID(ev.nID)]

\* what the code keeps of it: osm_id of a primary entity holds the id
C17_OSMIdKept ==
    (ev.op = "SetFieldsFromTags" /\ ~ev.bIsWayID /\ IdentifierField >= 0) =>
        ev.feature.fields[IdentifierField + 1] =
            [set |-> TRUE, v |-> FormatID(ev.nID)]

\* a record derived from a way, on a layer that declares osm_way_id, whose
\* tags have the key osm_way_id: the field holds the value of the tag
C17_Witness ==
    /\ ev.op = "SetFieldsFromTags"
    /\ ev.bIsWayID
    /\ decl.m_apszNames = <<<<"osm_way_id">>>>
    /\ ev.pasTags = <<[pszK |-> <<"osm_way_id">>, pszV |-> <<"Main St">>]>>
    /\ ev.feature.fields[1] = [set |-> TRUE, v |-> <<"Main St">>]


----------------------------------------------------------------------------
\* The z_order of an entity, on a layer that declares some of highway,
\* bridge, tunnel, railway, layer as fields, then the canonical expression
\* twice: as an OFTInteger attribute, which SetFieldsFromTags() computes
\* itself, and as an OFTInteger64 attribute, which it has the engine compute.

ZOrderInputs == <<"highway", "bridge", "tunnel", "railway", "layer">>

\* the values of each tag; NullValue: the entity has no such tag
ZOrderValues ==
    [highway |-> {NullValue} \cup
                 {[found |-> TRUE, pszV |-> <<v>>] :
                      v \in {"minor", "tertiary", "secondary_link", "primary",
                             "trunk_link", "motorway", "path"}},
     bridge  |-> {NullValue, [found |-> TRUE, pszV |-> <<"yes">>],
                  [found |-> TRUE, pszV |-> <<"no">>]},
     tunnel  |-> {NullValue, [found |-> TRUE, pszV |-> <<"1">>]},
     railway |-> {NullValue, [found |-> TRUE, pszV |-> <<"rail">>]},
     layer   |-> {NullValue, [found |-> TRUE, pszV |-> <<"1">>],
                  [found |-> TRUE, pszV |-> <<" ", "-", "1", "x">>],
                  [found |-> TRUE, pszV |-> <<"9", "9">>],
                  [found |-> TRUE, pszV |-> <<"x">>]}]

\* the inputs that are in S, in the order of ZOrderInputs: their names when
\* val is NullValue, else the tags that give them the values of val
RECURSIVE ZOrderSelect(_, _, _)
ZOrderSelect(i, S, val) ==
    IF i > Len(ZOrderInputs) THEN <<>>
    ELSE (IF ZOrderInputs[i] \in S
          THEN IF val = NullValue
               THEN <<<<ZOrderInputs[i]>>>>
               ELSE <<[pszK |-> <<ZOrderInputs[i]>>,
                       pszV |-> val[ZOrderInputs[i]].pszV]>>
          ELSE <<>>) \o ZOrderSelect(i + 1, S, val)

ZOrderInit ==
    /\ ReadingInit
    /\ ~bInterleaved
    /\ \E fields \in SUBSET {ZOrderInputs[i] : i \in DOMAIN ZOrderInputs} :
           decl = AddComputedAttribute(
                      AddComputedAttribute(
                          AddFields(NewDecl(FALSE, FALSE, FALSE),
                                    ZOrderSelect(1, fields, NullValue)),
                          <<"z_order">>, "OFTInteger", ZOrderSQL, TRUE, TRUE),
                      <<"z_order_sql">>, "OFTInteger64", ZOrderSQL, TRUE, TRUE)
    /\ \E val \in [highway : ZOrderValues.highway, bridge : ZOrderValues.bridge,
                   tunnel : ZOrderValues.tunnel, railway : ZOrderValues.railway,
                   layer : ZOrderValues.layer] :
           ev = [op |-> "entity", nID |-> 42, bIsWayID |-> FALSE,
                 pasTags |-> ZOrderSelect(1,
                                 {n \in DOMAIN val : val[n].found}, val)]

ZOrderNext == SetFieldsFromTagsCall

ZOrderSpec == ZOrderInit /\ [][ZOrderNext]_vars

\* the field of the feature of the computed attribute of that name
ComputedField(pszName) ==
    ev.feature.fields[
        decl.m_oComputedAttributes[
            CHOOSE i \in DOMAIN decl.m_oComputedAttributes :
                decl.m_oComputedAttributes[i].pszName = pszName].nIndex + 1]

\* C14: for every combination of highway, bridge, tunnel, railway and layer,
\* each absent or present, each read from a declared field or from the tags,
\* the integer that the hardcoded computation writes is the value of the
\* canonical expression on the same inputs.
C14_FastPathEqualsExpression ==
    ev.op = "SetFieldsFromTags" =>
        /\ ComputedField(<<"z_order">>).set
        /\ ComputedField(<<"z_order">>) = ComputedField(<<"z_order_sql">>)

\* they are equal whenever an int can hold the layer, ten times the layer,
\* and the sum
C14_EqualWithinInt ==
    (ev.op = "SetFieldsFromTags" /\ ~ev.bOverflow) =>
        /\ ComputedField(<<"z_order">>).set
        /\ ComputedField(<<"z_order">>) = ComputedField(<<"z_order_sql">>)

\* layer is 99 on a layer that declares none of the five as a field: the
\* canonical expression is worth 990, which an int of IntBits bits cannot hold
C14_Witness ==
    /\ ev.op = "SetFieldsFromTags"
    /\ Len(decl.m_apszNames) = 0
    /\ ev.pasTags = <<[pszK |-> <<"layer">>, pszV |-> <<"9", "9">>]>>
    /\ ComputedField(<<"z_order_sql">>).v = 990
    /\ ComputedField(<<"z_order">>).v # 990


----------------------------------------------------------------------------
\* The declarations on a layer: AddField() and AddComputedAttribute() called
\* in any order.

DeclFieldNames ==
    {<<"highway">>, <<"a", ":", "b">>, <<"a", "_", "b">>}

DeclAttrNames == {<<"z_order">>, <<"highway">>, <<"a", "_", "b">>}

DeclTypes == {"OFTInteger", "OFTString"}

DeclSQL == {ZOrderSQL, <<"SELECT ", "[", "a", ":", "b", "]">>}

DeclInit ==
    /\ ReadingInit
    /\ ~bInterleaved
    /\ ev = Event("Init", NoLayer, 0, "unset", "", FALSE, FALSE, NoLayer)
    /\ \E bLaundering \in BOOLEAN : decl = NewDecl(bLaundering, FALSE, FALSE)

AddFieldCall(pszName) ==
    /\ GetFieldCount(decl) < MaxFields
    /\ decl' = AddField(decl, pszName)
    /\ ev' = [op |-> "AddField", pszName |-> pszName, err |-> ""]
    /\ UNCHANGED rvars

\* the message of the CPLError() of the call, "" when it makes none
AddComputedAttributeError(d, pszName, bOpenOK, bPrepareOK) ==
    IF ~d.m_hDBForComputedAttributes /\ ~bOpenOK
    THEN "Cannot open temporary sqlite DB"
    ELSE IF FeatureDefn_GetFieldIndex(d, pszName) >= 0
    THEN "A field with same name already exists"
    ELSE IF ~bPrepareOK THEN "sqlite3_prepare_v2() failed"
    ELSE ""

\* the text given to CPLDebug() and to sqlite3_prepare_v2(), none when the
\* call returns before
PreparedSQL(d, pszName, pszSQL, bOpenOK) ==
    IF \/ ~d.m_hDBForComputedAttributes /\ ~bOpenOK
       \/ FeatureDefn_GetFieldIndex(d, pszName) >= 0
    THEN <<>>
    ELSE ParseSQL(d, pszSQL).osSQL

\* whether the database opens is asked only while none is open
AddComputedAttributeCall(pszName, eType, pszSQL, bPrepareOK) ==
    /\ GetFieldCount(decl) < MaxFields
    /\ \E bOpenOK \in ReadIf(~decl.m_hDBForComputedAttributes) :
           /\ decl' = AddComputedAttribute(decl, pszName, eType, pszSQL,
                                           bOpenOK, bPrepareOK)
           /\ ev' = [op |-> "AddComputedAttribute", pszName |-> pszName,
                     pszSQL |-> pszSQL,
                     osSQL |-> PreparedSQL(decl, pszName, pszSQL, bOpenOK),
                     err |-> AddComputedAttributeError(decl, pszName,
                                                       bOpenOK, bPrepareOK)]
    /\ UNCHANGED rvars

DeclNext ==
    \/ \E pszName \in DeclFieldNames : AddFieldCall(pszName)
    \/ \E pszName \in DeclAttrNames, eType \in DeclTypes, pszSQL \in DeclSQL,
          bPrepareOK \in BOOLEAN :
           AddComputedAttributeCall(pszName, eType, pszSQL, bPrepareOK)

DeclSpec == DeclInit /\ [][DeclNext]_vars

\* entities on which the production of records is compared
DeclEntities ==
    {<<>>,
     <<[pszK |-> <<"highway">>, pszV |-> <<"primary">>],
       [pszK |-> <<"a", ":", "b">>, pszV |-> <<"1">>]>>,
     <<[pszK |-> <<"a", "_", "b">>, pszV |-> <<"yes">>],
       [pszK |-> <<"layer">>, pszV |-> <<"-", "1">>]>>}

\* C15: when AddComputedAttribute() fails (the name is that of a field of the
\* layer, the expression does not compile, or the database cannot be
\* opened), the fields of the layer and its computed attributes are what
\* they were before the call, and the layer produces for an entity the record
\* it produced before the call.
C15_FailureChangesNothing ==
    [][(ev'.op = "AddComputedAttribute" /\ ev'.err # "") =>
           /\ decl'.fieldDefn = decl.fieldDefn
           /\ decl'.m_apszNames = decl.m_apszNames
           /\ decl'.m_oMapFieldNameToIndex = decl.m_oMapFieldNameToIndex
           /\ decl'.m_oComputedAttributes = decl.m_oComputedAttributes
           /\ \A pasTags \in DeclEntities :
                  SetFieldsFromTags(decl', 42, FALSE, pasTags, 0)
                      = SetFieldsFromTags(decl, 42, FALSE, pasTags, 0)]_vars

\* a call has failed for the name of the field that the layer has; the layer
\* still has that field only, and no computed attribute
C15_Witness ==
    /\ ev.op = "AddComputedAttribute"
    /\ ev.err = "A field with same name already exists"
    /\ ev.pszName = <<"highway">>
    /\ decl.fieldDefn = <<<<"highway">>>>
    /\ decl.m_oComputedAttributes = <<>>


\* the names of the fields of d are pairwise distinct
NamesDistinct(d) ==
    \A i, k \in DOMAIN d.fieldDefn :
        d.fieldDefn[i] = d.fieldDefn[k] => i = k

\* C18: after any sequence of AddField() and AddComputedAttribute() calls,
\* with or without the laundering of names, the names of the fields of the
\* layer are pairwise distinct.
C18_NamesDistinct == NamesDistinct(decl)

\* what the code keeps of it: AddComputedAttribute() adds no field under a
\* name that a field of the layer has
C18_AttributeKeepsDistinct ==
    [][(ev'.op = "AddComputedAttribute" /\ NamesDistinct(decl))
           => NamesDistinct(decl')]_vars

\* with laundering, AddField("a:b") then AddField("a_b"): two fields a_b
C18_Witness ==
    /\ decl.bAttributeNameLaundering
    /\ decl.m_apszNames = <<<<"a", ":", "b">>, <<"a", "_", "b">>>>
    /\ decl.fieldDefn = <<<<"a", "_", "b">>, <<"a", "_", "b">>>>
    /\ FeatureDefn_GetFieldIndex(decl, <<"a", "_", "b">>) = 0


\* Expressions given to AddComputedAttribute(): every text of at most
\* MaxSQLLen characters of SQLChars, on a layer that has the field a.
MaxSQLLen == 7

SQLChars == {"[", "]", "\\", "a"}

ParseInit ==
    /\ ReadingInit
    /\ ~bInterleaved
    /\ \E pszSQL \in SeqsUpTo(SQLChars, MaxSQLLen) :
           ev = [op |-> "expression", pszSQL |-> pszSQL]
    /\ decl = AddField(NewDecl(FALSE, FALSE, FALSE), <<"a">>)

ParseNext ==
    /\ ev.op = "expression"
    /\ \E bPrepareOK \in BOOLEAN :
           AddComputedAttributeCall(<<"c">>, "OFTString", ev.pszSQL, bPrepareOK)

ParseSpec == ParseInit /\ [][ParseNext]_vars

\* position from 1 of the first "]" of s after position i, 0 when none
ClosingBracket(s, i) ==
    IF \E k \in (i + 1)..Len(s) : s[k] = "]"
    THEN CHOOSE k \in (i + 1)..Len(s) :
             s[k] = "]" /\ \A m \in (i + 1)..(k - 1) : s[m] # "]"
    ELSE 0

\* a "[" at position i of s that no backslash precedes
OpensPlaceholder(s, i) ==
    s[i] = "[" /\ (i = 1 \/ s[i - 1] # "\\")

\* The placeholders of s read from position i on, from left to right, up to
\* the first one that has no "]": the names, and the text with a "?" for
\* each of them; a "[" at a position before nFirst is text.
RECURSIVE Placeholders(_, _, _)
Placeholders(s, i, nFirst) ==
    IF i > Len(s) THEN [names |-> <<>>, text |-> <<>>]
    ELSE IF i >= nFirst /\ OpensPlaceholder(s, i)
    THEN IF ClosingBracket(s, i) = 0
         THEN [names |-> <<>>, text |-> SubSeq(s, i, Len(s))]
         ELSE LET k == ClosingBracket(s, i)
                  rest == Placeholders(s, k + 1, nFirst)
              IN [names |-> <<SubSeq(s, i + 1, k - 1)>> \o rest.names,
                  text |-> <<"?">> \o rest.text]
    ELSE LET rest == Placeholders(s, i + 1, nFirst)
         IN [names |-> rest.names, text |-> <<s[i]>> \o rest.text]

\* a text without its backslashes, but a last one
Unescaped(s) ==
    SelectSeq(s, LAMBDA ch : ch # "\\")
        \o (IF s # <<>> /\ s[Len(s)] = "\\" THEN <<"\\">> ELSE <<>>)

\* whether the call got to sqlite3_prepare_v2()
Prepared ==
    /\ ev.op = "AddComputedAttribute"
    /\ ev.err \in {"", "sqlite3_prepare_v2() failed"}

\* the query that the call prepared, and the computed attribute that it added
\* when the query compiled, are those of the placeholders of its expression
\* from position nFirst on
ExtractedFrom(nFirst) ==
    Prepared =>
        LET expected == Placeholders(ev.pszSQL, 1, nFirst)
            oAttr == decl.m_oComputedAttributes[Len(decl.m_oComputedAttributes)]
        IN /\ ev.osSQL = Unescaped(expected.text)
           /\ ev.err = "" =>
                  /\ oAttr.osSQL = ev.pszSQL
                  /\ oAttr.hStmt = ev.osSQL
                  /\ oAttr.aosAttrToBind = expected.names
                  /\ Len(oAttr.anIndexToBind) = Len(oAttr.aosAttrToBind)
                  /\ \A j \in DOMAIN oAttr.anIndexToBind :
                         oAttr.anIndexToBind[j]
                             = FeatureDefn_GetFieldIndex(decl,
                                                         oAttr.aosAttrToBind[j])

\* C16: for any expression, AddComputedAttribute() extracts every [name]
\* that no backslash precedes, at any position of the expression, from left
\* to right: the query has one "?" where each extracted [name] stood, the
\* list of names and the list of indexes have the same length, and the
\* extraction stops at the first "[" without "]", the rest being text.
C16_ExtractsAtAnyPosition == ExtractedFrom(1)

\* what the code does: the same, but for a "[" that is the first character
\* of the expression, which is text
C16_ExtractsAfterFirstCharacter == ExtractedFrom(2)

\* "[a]a[a]" given to the call: the query prepared still begins with [a]
C16_Witness ==
    /\ Prepared
    /\ ev.pszSQL = <<"[", "a", "]", "a", "[", "a", "]">>
    /\ ev.osSQL = <<"[", "a", "]", "a", "?">>
    /\ ev.err = "sqlite3_prepare_v2() failed"
    /\ decl.m_oComputedAttributes = <<>>

----------------------------------------------------------------------------
\* Interleaved reading by a caller that does nothing but call
\* GetNextFeature(), on the current layer when there is one and on any layer
\* when there is none, until a call tells it the reading is over.

\* GetNextFeature() has returned nullptr and left no current layer
\* (line 237, "Game over")
EndOfStream ==
    /\ pc = "idle"
    /\ ev.op = "GetNextFeature"
    /\ ev.ret = NullFeature
    /\ poCurrentLayer = NoLayer

\* GetNextFeature() has returned nullptr and left a current layer
Redirected ==
    /\ pc = "idle"
    /\ ev.op = "GetNextFeature"
    /\ ev.ret = NullFeature
    /\ poCurrentLayer # NoLayer

InitInterleaved == Init /\ bInterleaved

PollGetNextFeature ==
    /\ ~EndOfStream
    /\ \E l \in Layers :
           /\ poCurrentLayer \in {NoLayer, l}
           /\ GetNextFeature(l)
    /\ UNCHANGED decl

PollNext ==
    \/ PollGetNextFeature
    \/ \E l \in Layers : ChunkAddFeature(l) /\ UNCHANGED decl
    \/ ChunkSkipEntity /\ UNCHANGED decl
    \/ ParseNextChunkReturns /\ UNCHANGED decl

\* the caller goes on calling, and a call entered runs on to its return
PollSpec ==
    /\ InitInterleaved
    /\ [][PollNext]_vars
    /\ WF_vars(PollGetNextFeature)
    /\ WF_vars(InsideGetNextFeature)

\* C19: in interleaved mode, on a finite stream, a caller that calls
\* GetNextFeature() again on the layer the last call left current (on any
\* layer when it left none) ends by getting nullptr with no current layer;
\* at that point every feature that entered the array of a layer has been
\* returned, each feature returned is the oldest one of its layer not yet
\* returned (hence once), and a nullptr that leaves a current layer is
\* followed by a call that returns a feature.
C19_PollingReachesEnd ==
    /\ [](EndOfStream =>
              \A l \in Layers :
                  /\ Size(l) = 0
                  /\ hAppended[l] = <<>>
                  /\ hDelivered[l] = <<>>)
    /\ [][\A l \in Layers :
              (ReturnsFromGetNextFeature(l) /\ ev'.ret # NullFeature) =>
                  /\ Undelivered(l) > 0
                  /\ ev'.ret = hAppended[l][Len(hDelivered[l]) + 1]
                  /\ layers[l].m_apoFeatures[Index(l) + 1] = ev'.ret
                  /\ \/ Index(l) + 1 = Size(l) /\ SizeAfter(l) = 0
                     \/ layers'[l].m_apoFeatures[Index(l) + 1] = NullFeature]_vars
    /\ [][Redirected =>
              /\ ev'.op = "GetNextFeature"
              /\ ev'.lyr = poCurrentLayer
              /\ ev'.ret # NullFeature]_vars
    /\ <>EndOfStream

\* the reading is over with the stream read to its end, after each layer
\* has returned features and the last call was sent to the other layer
C19_Witness ==
    /\ bInterleaved
    /\ EndOfStream
    /\ ev.pulled
    /\ strLeft = 0
    /\ \A l \in Layers : hPass[l]

====
